---- MODULE Spec2Model ----
(***************************************************************************)
(* Address reservation and persistence of the CNI host-local / bridge      *)
(* plugins: the flat-file address store (backend/disk), the sticky         *)
(* identity files, the reservation database and the orchestrator that      *)
(* combines them (allocator_ext.go, bridge/store.go).                      *)
(*                                                                         *)
(* Strings are sequences of chunks.  A chunk is either one of the          *)
(* characters the code inspects ("_", " ", "\r", "\n") or an opaque piece  *)
(* of text that contains none of them.                                     *)
(***************************************************************************)
EXTENDS Integers, Sequences, FiniteSets, TLC

VARIABLES
    dir,      \* the store directory: file name -> file (SpecOpen: the data
              \* directory with the network directories and database files)
    rpc,      \* per process: position inside Store.Reserve
    rarg,     \* per process: arguments of the Reserve call in flight
    ret,      \* what the last Store call that returned gave back
    macDir,   \* the directory of the bridge MAC store: file name -> file
    look,     \* what the last sticky lookup reported (SpecLock: per process,
              \* the process-global database handle)
    plugin,   \* the plugin whose invocations run: "host-local" or "bridge"
              \* (SpecOpen: the process-global database handle)
    table,    \* the rows of the plugin's reservation database
    nextID,   \* the primary key the next inserted row gets
    now,      \* the clock, in days
    lock,     \* the process that holds the network's file lock, or "none"
    hist      \* history, per identity: the last address acquired, whether it
              \* was stored, whether the workload was released since
              \* (SpecRelease: the last ReleaseByID call; SpecResolve: the
              \* argument string to resolve; SpecExpire: the modification
              \* times of the MAC files and the identities bound; SpecForced:
              \* the last GetIP call)

diskVars == <<dir, rpc, rarg, ret>>

stickyVars == <<macDir, look>>

allocVars == <<table, nextID, now, lock, hist>>

\* what the calls on the flat-file store alone leave as it is
outsideDisk == <<macDir, look, plugin, table, nextID, now, lock, hist>>

vars == <<dir, rpc, rarg, ret, macDir, look, plugin, table, nextID, now, lock, hist>>

----------------------------------------------------------------------------
(* Strings *)

EmptyStr == << >>

LineBreak == <<"\r", "\n">>

lastIPFilePrefix == <<"last_reserved_ip.">>

IsSpace(c) == c \in {" ", "\t", "\r", "\n"}

RECURSIVE TrimLeft(_)
TrimLeft(s) ==
    IF s # << >> /\ IsSpace(Head(s)) THEN TrimLeft(Tail(s)) ELSE s

RECURSIVE TrimRight(_)
TrimRight(s) ==
    IF s # << >> /\ IsSpace(s[Len(s)])
    THEN TrimRight(SubSeq(s, 1, Len(s) - 1))
    ELSE s

\* strings.TrimSpace
TrimSpace(s) == TrimRight(TrimLeft(s))

\* strings.Count(s, sep) for a one-character separator
RECURSIVE Count(_, _)
Count(s, sep) ==
    IF s = << >> THEN 0
    ELSE (IF Head(s) = sep THEN 1 ELSE 0) + Count(Tail(s), sep)

\* strings.Split(s, sep) for a one-character separator: Count(s, sep) + 1 parts
RECURSIVE Split(_, _)
Split(s, sep) ==
    IF s = << >> THEN << << >> >>
    ELSE LET rest == Split(Tail(s), sep) IN
         IF Head(s) = sep
         THEN << << >> >> \o rest
         ELSE << <<Head(s)>> \o Head(rest) >> \o Tail(rest)

----------------------------------------------------------------------------
(* Addresses: a net.IP value and its text form *)

NilIP == [v |-> 0, host |-> 0]

IPs == {[v |-> 4, host |-> 1], [v |-> 4, host |-> 2]}

\* net.IP.String
IPString(ip) ==
    CASE ip = [v |-> 4, host |-> 1] -> <<"10.0.0.1">>
      [] ip = [v |-> 4, host |-> 2] -> <<"10.0.0.2">>
      [] ip = [v |-> 4, host |-> 3] -> <<"10.0.0.3">>
      [] ip = [v |-> 6, host |-> 1] -> <<"fd00::1">>
      [] OTHER -> <<"<nil>">>

AllIPs == {[v |-> 4, host |-> 1], [v |-> 4, host |-> 2], [v |-> 4, host |-> 3],
           [v |-> 6, host |-> 1]}

\* net.ParseIP: nil for a text that is no address
ParseIP(s) ==
    IF \E ip \in AllIPs : IPString(ip) = s
    THEN CHOOSE ip \in AllIPs : IPString(ip) = s
    ELSE NilIP

----------------------------------------------------------------------------
(* The directory.  A file has its bytes (data) and the Reserve calls that   *)
(* hold a descriptor on it (held).  by and wins are history: the content    *)
(* the creating Reserve call set out to write, and the number of Reserve    *)
(* calls on this file that returned (true, nil).                            *)

NoOwner == <<"<none>">>

NewFile(data) == [data |-> data, held |-> {}, by |-> NoOwner, wins |-> 0]

Exists(d, n) == n \in DOMAIN d

\* os.Remove of a name that exists
Remove(d, n) == [m \in DOMAIN d \ {n} |-> d[m]]

PutFile(d, n, f) == [m \in DOMAIN d \cup {n} |-> IF m = n THEN f ELSE d[m]]

\* ioutil.WriteFile: O_WRONLY|O_CREATE|O_TRUNC, the file is kept when it exists
WriteFile(d, n, data) ==
    IF Exists(d, n) THEN [d EXCEPT ![n].data = data]
    ELSE PutFile(d, n, NewFile(data))

\* os.Rename: the destination is replaced
Rename(d, old, new) ==
    IF old = new THEN d ELSE PutFile(Remove(d, old), new, d[old])

\* GetEscapedPath on a non-windows build: the name is kept
GetEscapedPath(fname) == fname

----------------------------------------------------------------------------
(* Sticky identity files of the IP store (backend/disk) *)

\* podFileName: ip_<ip>_<ns>_<name>, or the bare name
podFileName(ip, ns, name) ==
    IF ip # << >> /\ ns # << >>
    THEN <<"ip", "_">> \o ip \o <<"_">> \o ns \o <<"_">> \o name
    ELSE name

\* resolvePodFileName: the three fields of a name of exactly four parts
resolvePodFileName(fName) ==
    LET parts == Split(fName, "_") IN
    IF Len(parts) = 4
    THEN [ip |-> parts[2], ns |-> parts[3], name |-> parts[4]]
    ELSE [ip |-> << >>, ns |-> << >>, name |-> << >>]

HasPrefix(s, pre) == Len(s) >= Len(pre) /\ SubSeq(s, 1, Len(pre)) = pre

HasSuffix(s, suf) ==
    Len(s) >= Len(suf) /\ SubSeq(s, Len(s) - Len(suf) + 1, Len(s)) = suf

\* filepath.Glob of <pre>*<suf> in the directory: * is any run of characters
Glob(d, pre, suf) ==
    {n \in DOMAIN d :
        Len(n) >= Len(pre) + Len(suf) /\ HasPrefix(n, pre) /\ HasSuffix(n, suf)}

\* Store.findPodFileName: the single match with three "_", else ""
findPodFileName(d, ip, ns, name) ==
    LET podFiles ==
            IF ip # << >> THEN Glob(d, <<"ip", "_">> \o ip \o <<"_">>, << >>)
            ELSE Glob(d, <<"ip", "_">>, <<"_">> \o ns \o <<"_">> \o name)
    IN  IF ip = << >> /\ ~(ns # << >> /\ name # << >>) THEN << >>
        ELSE IF Cardinality(podFiles) = 1
                /\ Count(CHOOSE f \in podFiles : TRUE, "_") = 3
             THEN CHOOSE f \in podFiles : TRUE
             ELSE << >>

\* Store.HasReservedIP
HasReservedIP(d, podNs, podName) ==
    LET f == findPodFileName(d, << >>, podNs, podName)
        r == resolvePodFileName(f)
    IN  IF podName = << >> THEN [found |-> FALSE, ip |-> NilIP]
        ELSE IF f # << >> /\ r.ns = podNs /\ r.name = podName
                /\ ParseIP(r.ip) # NilIP
             THEN [found |-> TRUE, ip |-> ParseIP(r.ip)]
             ELSE [found |-> FALSE, ip |-> NilIP]

\* mutant of ReservePodInfo: nothing is written when podIPIsExist is true
ReservePodInfoSkip(d, id, ifname, ip, podNs, podName, podIPIsExist, fail) ==
    LET podIPNsNameFile == GetEscapedPath(podFileName(IPString(ip), podNs, podName))
        podIPNsNameFileName == findPodFileName(d, IPString(ip), << >>, << >>)
    IN  IF podIPIsExist \/ podName = << >> THEN [d |-> d, ok |-> TRUE, err |-> "nil"]
        ELSE IF fail THEN [d |-> d, ok |-> FALSE, err |-> "io"]
        ELSE IF podIPNsNameFileName # << >>
             THEN [d |-> Rename(d, GetEscapedPath(podIPNsNameFileName), podIPNsNameFile),
                   ok |-> TRUE, err |-> "nil"]
             ELSE [d |-> WriteFile(d, podIPNsNameFile, << >>),
                   ok |-> TRUE, err |-> "nil"]

\* Store.ReservePodInfo; fail: the file operation it performs fails
ReservePodInfo(d, id, ifname, ip, podNs, podName, podIPIsExist, fail) ==
    LET fname == GetEscapedPath(IPString(ip))
        podIPNsNameFile == GetEscapedPath(podFileName(IPString(ip), podNs, podName))
        podIPNsNameFileName == findPodFileName(d, IPString(ip), << >>, << >>)
    IN  IF podIPIsExist
        THEN IF fail THEN [d |-> d, ok |-> FALSE, err |-> "io"]
             ELSE [d |-> WriteFile(d, fname, TrimSpace(id) \o LineBreak \o ifname),
                   ok |-> TRUE, err |-> "nil"]
        ELSE IF podName = << >> THEN [d |-> d, ok |-> TRUE, err |-> "nil"]
        ELSE IF fail THEN [d |-> d, ok |-> FALSE, err |-> "io"]
        ELSE IF podIPNsNameFileName # << >>
             THEN [d |-> Rename(d, GetEscapedPath(podIPNsNameFileName), podIPNsNameFile),
                   ok |-> TRUE, err |-> "nil"]
             ELSE [d |-> WriteFile(d, podIPNsNameFile, << >>),
                   ok |-> TRUE, err |-> "nil"]

----------------------------------------------------------------------------
(* Store.Reserve, one step per system call *)

\* mutant of OpenExcl: O_EXCL left out, an existing file is opened
OpenNoExcl(d, fname, fail) == IF fail THEN "io" ELSE "created"

\* os.OpenFile(fname, O_RDWR|O_EXCL|O_CREATE): "exist", "io" or "created"
OpenExcl(d, fname, fail) ==
    IF Exists(d, fname) THEN "exist"
    ELSE IF fail THEN "io"
    ELSE "created"

\* what open(O_RDWR|O_CREATE) leaves once the O_EXCL test has passed: a new
\* empty file opened by the Reserve call of p (an existing file would be opened)
OpenCreate(d, fname, p, intent) ==
    IF Exists(d, fname) THEN [d EXCEPT ![fname].held = @ \cup {p}]
    ELSE PutFile(d, fname, [data |-> << >>, held |-> {p}, by |-> intent, wins |-> 0])

\* mutant of WriteString: the write goes to whatever file has the name now
WriteStringByName(d, fname, p, data) ==
    IF Exists(d, fname) THEN [d EXCEPT ![fname].data = data] ELSE d

\* f.WriteString through p's descriptor: it reaches the file p opened, which
\* is the file of that name only while that file has not been removed
WriteString(d, fname, p, data) ==
    IF Exists(d, fname) /\ p \in d[fname].held
    THEN [d EXCEPT ![fname].data = data]
    ELSE d

\* os.Remove(fname) in Reserve's error paths: by name, errors ignored
RemoveIfExists(d, fname) == IF Exists(d, fname) THEN Remove(d, fname) ELSE d

\* p's Reserve call returns: it no longer counts among the calls on its file,
\* and a return of (true, nil) is counted on that file
Returned(d, fname, p, won) ==
    IF Exists(d, fname) /\ p \in d[fname].held
    THEN [d EXCEPT ![fname].held = @ \ {p},
                   ![fname].wins = IF won THEN @ + 1 ELSE @]
    ELSE d

LastIPFile(rangeID) == GetEscapedPath(lastIPFilePrefix \o rangeID)

\* Store.Release: os.Remove, whose error is returned
Release(d, ip, fail) ==
    LET fname == GetEscapedPath(IPString(ip)) IN
    IF ~Exists(d, fname) THEN [d |-> d, err |-> "notexist"]
    ELSE IF fail THEN [d |-> d, err |-> "io"]
    ELSE [d |-> Remove(d, fname), err |-> "nil"]

\* Store.ReleaseByKey: every file whose trimmed content is match is removed;
\* bad: the files whose read or remove fails (skipped)
ReleaseByKey(d, match, bad) ==
    LET hit == {n \in DOMAIN d \ bad : TrimSpace(d[n].data) = match} IN
    [d |-> [n \in DOMAIN d \ hit |-> d[n]], found |-> hit # {}]

\* mutant of ReleaseByID: the id alone is looked for in every call
ReleaseByIDBothTiers(d, id, ifname, bad) ==
    LET first == ReleaseByKey(d, TrimSpace(id) \o LineBreak \o ifname, bad)
        second == ReleaseByKey(first.d, TrimSpace(id), bad)
    IN  [d |-> second.d, found |-> first.found \/ second.found, err |-> "nil"]

\* mutant of ReleaseByID: a scan that removes nothing is an error
ReleaseByIDNotFoundIsError(d, id, ifname, bad) ==
    LET first == ReleaseByKey(d, TrimSpace(id) \o LineBreak \o ifname, bad)
        second == ReleaseByKey(first.d, TrimSpace(id), bad)
    IN  IF first.found
        THEN [d |-> first.d, found |-> TRUE, err |-> "nil"]
        ELSE [d |-> second.d, found |-> second.found,
              err |-> IF second.found THEN "nil" ELSE "notexist"]

\* Store.ReleaseByID: the id and interface, then the id alone
ReleaseByID(d, id, ifname, bad) ==
    LET first == ReleaseByKey(d, TrimSpace(id) \o LineBreak \o ifname, bad)
        second == ReleaseByKey(first.d, TrimSpace(id), bad)
    IN  IF first.found
        THEN [d |-> first.d, found |-> TRUE, err |-> "nil"]
        ELSE [d |-> second.d, found |-> second.found, err |-> "nil"]

----------------------------------------------------------------------------
(* The flat-file store under concurrent callers: SpecDisk.  Reserve runs    *)
(* one system call per step; the other operations are single steps.         *)

Procs == {"p1", "p2"}

ContainerIDs == {<<"c1">>, <<"c2">>}

Ifnames == {<<"eth0">>}

RangeID == <<"0">>

\* the workload identity (namespace, name) the callers of SpecDisk pass: an
\* untracked workload; the sticky files of tracked ones are SpecSticky's
DiskPods == {[ns |-> <<"ns1">>, name |-> << >>]}

NoArg == [id |-> << >>, ifname |-> << >>, ip |-> NilIP]

PluginBridge == "bridge"

PluginHostLocal == "host-local"

\* a sticky lookup's answer: the address text found, or none
Look(kind, found, addr) == [kind |-> kind, found |-> found, addr |-> addr]

NoLook == Look("none", FALSE, << >>)

Ret(ok, err) == [ok |-> ok, err |-> err]

InitDisk ==
    /\ dir = << >>
    /\ rpc = [p \in Procs |-> "idle"]
    /\ rarg = [p \in Procs |-> NoArg]
    /\ ret = Ret(FALSE, "none")
    /\ macDir = << >>
    /\ look = NoLook
    /\ plugin = PluginHostLocal
    /\ table = {}
    /\ nextID = 1
    /\ now = 0
    /\ lock = "none"
    /\ hist = << >>

\* Reserve, lines 61-69: the exclusive create
ReserveOpen(p, id, ifname, ip, fail) ==
    LET fname == GetEscapedPath(IPString(ip))
        out == OpenExcl(dir, fname, fail)
    IN  /\ UNCHANGED outsideDisk
        /\ rpc[p] = "idle"
        /\ CASE out = "exist" ->
                  /\ ret' = Ret(FALSE, "nil")
                  /\ UNCHANGED <<dir, rpc, rarg>>
             [] out = "io" ->
                  /\ ret' = Ret(FALSE, "io")
                  /\ UNCHANGED <<dir, rpc, rarg>>
             [] OTHER ->
                  /\ dir' = OpenCreate(dir, fname, p, TrimSpace(id) \o LineBreak \o ifname)
                  /\ rpc' = [rpc EXCEPT ![p] = "opened"]
                  /\ rarg' = [rarg EXCEPT ![p] = [id |-> id, ifname |-> ifname, ip |-> ip]]
                  /\ UNCHANGED ret

\* Reserve, lines 70-74: the owner write, the file removed when it fails
ReserveWrite(p, fail) ==
    LET a == rarg[p]
        fname == GetEscapedPath(IPString(a.ip))
    IN  /\ UNCHANGED outsideDisk
        /\ rpc[p] = "opened"
        /\ IF fail
           THEN /\ dir' = RemoveIfExists(Returned(dir, fname, p, FALSE), fname)
                /\ rpc' = [rpc EXCEPT ![p] = "idle"]
                /\ rarg' = [rarg EXCEPT ![p] = NoArg]
                /\ ret' = Ret(FALSE, "io")
           ELSE /\ dir' = WriteString(dir, fname, p, TrimSpace(a.id) \o LineBreak \o a.ifname)
                /\ rpc' = [rpc EXCEPT ![p] = "written"]
                /\ UNCHANGED <<rarg, ret>>

\* Reserve, lines 75-78: the close, the file removed when it fails
ReserveClose(p, fail) ==
    LET a == rarg[p]
        fname == GetEscapedPath(IPString(a.ip))
    IN  /\ UNCHANGED outsideDisk
        /\ rpc[p] = "written"
        /\ IF fail
           THEN /\ dir' = RemoveIfExists(Returned(dir, fname, p, FALSE), fname)
                /\ rpc' = [rpc EXCEPT ![p] = "idle"]
                /\ rarg' = [rarg EXCEPT ![p] = NoArg]
                /\ ret' = Ret(FALSE, "io")
           ELSE /\ rpc' = [rpc EXCEPT ![p] = "closed"]
                /\ UNCHANGED <<dir, rarg, ret>>

\* Reserve, lines 79-85: the last-reserved marker and the return
ReserveLast(p, fail) ==
    LET a == rarg[p]
        fname == GetEscapedPath(IPString(a.ip))
    IN  /\ UNCHANGED outsideDisk
        /\ rpc[p] = "closed"
        /\ rpc' = [rpc EXCEPT ![p] = "idle"]
        /\ rarg' = [rarg EXCEPT ![p] = NoArg]
        /\ IF fail
           THEN /\ dir' = Returned(dir, fname, p, FALSE)
                /\ ret' = Ret(FALSE, "io")
           ELSE /\ dir' = WriteFile(Returned(dir, fname, p, TRUE),
                                    LastIPFile(RangeID), IPString(a.ip))
                /\ ret' = Ret(TRUE, "nil")

\* a caller that is not inside Reserve
SomeIdle == (\E p \in Procs : rpc[p] = "idle") = TRUE

DiskRelease(ip, fail) ==
    LET r == Release(dir, ip, fail) IN
    /\ SomeIdle
    /\ dir' = r.d
    /\ ret' = Ret(r.err = "nil", r.err)
    /\ UNCHANGED <<rpc, rarg>>
    /\ UNCHANGED outsideDisk

\* the files a ReleaseByID(id, ifname) scan would try to remove
Matching(d, id, ifname) ==
    {n \in DOMAIN d : TrimSpace(d[n].data) \in
                         {TrimSpace(id) \o LineBreak \o ifname, TrimSpace(id)}}

DiskReleaseByID(id, ifname, bad) ==
    LET r == ReleaseByID(dir, id, ifname, bad) IN
    /\ SomeIdle
    /\ dir' = r.d
    /\ ret' = Ret(r.err = "nil", r.err)
    /\ UNCHANGED <<rpc, rarg>>
    /\ UNCHANGED outsideDisk

DiskReservePodInfo(id, ifname, ip, pod, podIPIsExist, fail) ==
    LET r == ReservePodInfo(dir, id, ifname, ip, pod.ns, pod.name, podIPIsExist, fail) IN
    /\ SomeIdle
    /\ dir' = r.d
    /\ ret' = Ret(r.ok, r.err)
    /\ UNCHANGED <<rpc, rarg>>
    /\ UNCHANGED outsideDisk

NextDisk ==
    \/ \E p \in Procs, id \in ContainerIDs, ifname \in Ifnames, ip \in IPs,
          fail \in BOOLEAN :
           ReserveOpen(p, id, ifname, ip, fail)
    \/ \E p \in Procs, fail \in BOOLEAN : ReserveWrite(p, fail)
    \/ \E p \in Procs, fail \in BOOLEAN : ReserveClose(p, fail)
    \/ \E p \in Procs, fail \in BOOLEAN : ReserveLast(p, fail)
    \/ \E ip \in IPs, fail \in BOOLEAN : DiskRelease(ip, fail)
    \/ \E id \in ContainerIDs, ifname \in Ifnames :
           \E bad \in SUBSET Matching(dir, id, ifname) :
               DiskReleaseByID(id, ifname, bad)
    \/ \E id \in ContainerIDs, ifname \in Ifnames, ip \in IPs, pod \in DiskPods,
          ex \in BOOLEAN, fail \in BOOLEAN :
           DiskReservePodInfo(id, ifname, ip, pod, ex, fail)

SpecDisk == InitDisk /\ [][NextDisk]_vars

----------------------------------------------------------------------------
(* Claims on the flat-file store *)

AddrFile(ip) == GetEscapedPath(IPString(ip))

\* a Reserve call of p on ip that opened a file of that name since removed
Stale(p, ip) ==
    /\ rpc[p] \in {"opened", "written"}
    /\ rarg[p].ip = ip
    /\ ~(Exists(dir, AddrFile(ip)) /\ p \in dir[AddrFile(ip)].held)

\* a Reserve on an address whose file exists returns (false, nil), file untouched
RefusedWhenTaken ==
    \A p \in Procs, id \in ContainerIDs, ifname \in Ifnames, ip \in IPs,
       fail \in BOOLEAN :
        (ReserveOpen(p, id, ifname, ip, fail) /\ Exists(dir, AddrFile(ip)))
            => (ret' = Ret(FALSE, "nil") /\ dir' = dir)

\* no file has two Reserve calls on it, nor two that returned (true, nil)
OneWinner ==
    \A n \in DOMAIN dir : Cardinality(dir[n].held) <= 1 /\ dir[n].wins <= 1

ReleasedStep(ip) ==
    \/ \E fail \in BOOLEAN : DiskRelease(ip, fail)
    \/ \E id \in ContainerIDs, ifname \in Ifnames :
           \E bad \in SUBSET Matching(dir, id, ifname) :
               DiskReleaseByID(id, ifname, bad)

StaleCleanupStep(ip) ==
    \E p \in Procs :
        Stale(p, ip) /\ (ReserveWrite(p, TRUE) \/ ReserveClose(p, TRUE))

\* the file of a successful reservation goes away only in the steps of X
KeptUntil(X(_)) ==
    \A ip \in IPs :
        (/\ Exists(dir, AddrFile(ip))
         /\ dir[AddrFile(ip)].wins >= 1
         /\ ~Exists(dir', AddrFile(ip))) => X(ip)

ReleasedOrStaleCleanup(ip) == ReleasedStep(ip) \/ StaleCleanupStep(ip)

OwnerWriteStep(ip) ==
    \E p \in Procs :
        /\ p \in dir[AddrFile(ip)].held
        /\ ReserveWrite(p, FALSE)
        /\ dir'[AddrFile(ip)].data = dir[AddrFile(ip)].by

OverwriteStep(ip) ==
    \E id \in ContainerIDs, ifname \in Ifnames, pod \in DiskPods :
        /\ DiskReservePodInfo(id, ifname, ip, pod, TRUE, FALSE)
        /\ dir'[AddrFile(ip)].data = TrimSpace(id) \o LineBreak \o ifname

ExclusiveCreateStep(ip) ==
    \E p \in Procs, id \in ContainerIDs, ifname \in Ifnames :
        /\ ReserveOpen(p, id, ifname, ip, FALSE)
        /\ dir'[AddrFile(ip)].data = << >>
        /\ dir'[AddrFile(ip)].by = TrimSpace(id) \o LineBreak \o ifname

----------------------------------------------------------------------------
(* Sticky identity files of the MAC store (main/bridge/store.go).  A MAC    *)
(* text is its groups of hex digits and the separators between them; a      *)
(* hardware address is the sequence of its groups.                          *)

deletionTag == <<"deleted">>

HexGroups == {"02", "a1", "a2"}

NilMAC == << >>

\* strings.ReplaceAll(s, old, new) for one-character old and new
ReplaceAll(s, old, new) == [i \in 1..Len(s) |-> IF s[i] = old THEN new ELSE s[i]]

\* net.ParseMAC: groups separated by ":" throughout or by "-" throughout
ParseMAC(s) ==
    IF Len(s) = 3 /\ s[1] \in HexGroups /\ s[3] \in HexGroups /\ s[2] \in {":", "-"}
    THEN <<s[1], s[3]>>
    ELSE NilMAC

\* HardwareAddr.String: the groups joined by ":"
MACString(hw) == IF hw = NilMAC THEN << >> ELSE <<hw[1], ":", hw[2]>>

\* podFileName of the bridge store: mac_<mac with "-">_<ns>_<name>, or the bare name
macPodFileName(mac, ns, name) ==
    IF mac # << >> /\ ns # << >>
    THEN <<"mac", "_">> \o ReplaceAll(mac, ":", "-") \o <<"_">> \o ns \o <<"_">> \o name
    ELSE name

\* resolvePodFileName of the bridge store
macResolvePodFileName(fName) ==
    LET parts == Split(fName, "_") IN
    IF Len(parts) = 4
    THEN [mac |-> parts[2], ns |-> parts[3], name |-> parts[4]]
    ELSE [mac |-> << >>, ns |-> << >>, name |-> << >>]

\* Store.findPodFileName of the bridge store
macFindPodFileName(d, mac, ns, name) ==
    LET podFiles ==
            IF mac # << >>
            THEN Glob(d, <<"mac", "_">> \o ReplaceAll(mac, ":", "-") \o <<"_">>, << >>)
            ELSE Glob(d, <<"mac", "_">>, <<"_">> \o ns \o <<"_">> \o name)
    IN  IF mac = << >> /\ ~(ns # << >> /\ name # << >>) THEN << >>
        ELSE IF Cardinality(podFiles) = 1
                /\ Count(CHOOSE f \in podFiles : TRUE, "_") = 3
             THEN CHOOSE f \in podFiles : TRUE
             ELSE << >>

\* Store.hasReservedMAC: the hardware address, or nil
hasReservedMAC(d, podNS, podName) ==
    LET f == macFindPodFileName(d, << >>, podNS, podName)
        r == macResolvePodFileName(f)
    IN  IF podName = << >> THEN NilMAC
        ELSE IF f # << >> /\ r.ns = podNS /\ r.name = podName
             THEN ParseMAC(r.mac)
             ELSE NilMAC

\* mutant of reservePodInfo: a bind writes its file without renaming the old one
reservePodInfoNoRename(d, mac, podNs, podName, fail) ==
    LET found == macFindPodFileName(d, << >>, podNs, podName)
        target == macPodFileName(mac, podNs, podName)
    IN  IF podName = << >> THEN [d |-> d, ok |-> FALSE, err |-> "nil"]
        ELSE IF mac = << >>
             THEN IF found = << >> THEN [d |-> d, ok |-> TRUE, err |-> "nil"]
                  ELSE IF fail THEN [d |-> d, ok |-> FALSE, err |-> "io"]
                  ELSE [d |-> WriteFile(d, GetEscapedPath(found), deletionTag),
                        ok |-> TRUE, err |-> "nil"]
        ELSE IF fail THEN [d |-> d, ok |-> FALSE, err |-> "io"]
        ELSE [d |-> WriteFile(d, GetEscapedPath(target), << >>),
              ok |-> TRUE, err |-> "nil"]

\* mutant of reservePodInfo: an unbind removes the mapping file
reservePodInfoRemove(d, mac, podNs, podName, fail) ==
    LET found == macFindPodFileName(d, << >>, podNs, podName)
        target == macPodFileName(mac, podNs, podName)
    IN  IF podName = << >> THEN [d |-> d, ok |-> FALSE, err |-> "nil"]
        ELSE IF mac = << >>
             THEN IF found = << >> THEN [d |-> d, ok |-> TRUE, err |-> "nil"]
                  ELSE IF fail THEN [d |-> d, ok |-> FALSE, err |-> "io"]
                  ELSE [d |-> Remove(d, GetEscapedPath(found)),
                        ok |-> TRUE, err |-> "nil"]
        ELSE IF fail THEN [d |-> d, ok |-> FALSE, err |-> "io"]
        ELSE IF found # << >> /\ target # found
             THEN [d |-> Rename(d, GetEscapedPath(found), GetEscapedPath(target)),
                   ok |-> TRUE, err |-> "nil"]
             ELSE [d |-> WriteFile(d, GetEscapedPath(target), << >>),
                   ok |-> TRUE, err |-> "nil"]

\* Store.reservePodInfo; fail: the file operation it performs fails
reservePodInfo(d, mac, podNs, podName, fail) ==
    LET found == macFindPodFileName(d, << >>, podNs, podName)
        target == macPodFileName(mac, podNs, podName)
    IN  IF podName = << >> THEN [d |-> d, ok |-> FALSE, err |-> "nil"]
        ELSE IF mac = << >>
             THEN IF found = << >> THEN [d |-> d, ok |-> TRUE, err |-> "nil"]
                  ELSE IF fail THEN [d |-> d, ok |-> FALSE, err |-> "io"]
                  ELSE [d |-> WriteFile(d, GetEscapedPath(found), deletionTag),
                        ok |-> TRUE, err |-> "nil"]
        ELSE IF fail THEN [d |-> d, ok |-> FALSE, err |-> "io"]
        ELSE IF found # << >> /\ target # found
             THEN [d |-> Rename(d, GetEscapedPath(found), GetEscapedPath(target)),
                   ok |-> TRUE, err |-> "nil"]
             ELSE [d |-> WriteFile(d, GetEscapedPath(target), << >>),
                   ok |-> TRUE, err |-> "nil"]

----------------------------------------------------------------------------
(* The sticky files of one store under a sequence of binds and lookups:     *)
(* SpecSticky.  The IP store and the MAC store are separate directories; a  *)
(* run exercises the store of one plugin.                                   *)

StickyPods == {[ns |-> <<"ns1">>, name |-> <<"pod1">>],
               [ns |-> <<"ns1">>, name |-> <<"pod2">>]}

MACs == {<<"02", ":", "a1">>, <<"02", ":", "a2">>}

InitSticky ==
    /\ dir = << >>
    /\ rpc = [p \in Procs |-> "idle"]
    /\ rarg = [p \in Procs |-> NoArg]
    /\ ret = Ret(FALSE, "none")
    /\ macDir = << >>
    /\ look = NoLook
    /\ plugin \in {PluginHostLocal, PluginBridge}
    /\ table = {}
    /\ nextID = 1
    /\ now = 0
    /\ lock = "none"
    /\ hist = << >>

StickyReservePodInfo(id, ifname, ip, pod, podIPIsExist, fail) ==
    /\ plugin = PluginHostLocal
    /\ DiskReservePodInfo(id, ifname, ip, pod, podIPIsExist, fail)

StickyHasReservedIP(pod) ==
    LET r == HasReservedIP(dir, pod.ns, pod.name) IN
    /\ plugin = PluginHostLocal
    /\ look' = Look("ip", r.found, IF r.found THEN IPString(r.ip) ELSE << >>)
    /\ UNCHANGED <<diskVars, macDir, plugin, allocVars>>

StickyReservePodMAC(mac, pod, fail) ==
    LET r == reservePodInfo(macDir, mac, pod.ns, pod.name, fail) IN
    /\ plugin = PluginBridge
    /\ macDir' = r.d
    /\ ret' = Ret(r.ok, r.err)
    /\ UNCHANGED <<dir, rpc, rarg, look, plugin, allocVars>>

StickyHasReservedMAC(pod) ==
    LET hw == hasReservedMAC(macDir, pod.ns, pod.name) IN
    /\ plugin = PluginBridge
    /\ look' = Look("mac", hw # NilMAC, MACString(hw))
    /\ UNCHANGED <<diskVars, macDir, plugin, allocVars>>

NextSticky ==
    \/ \E id \in ContainerIDs, ifname \in Ifnames, ip \in IPs, pod \in StickyPods,
          ex \in BOOLEAN, fail \in BOOLEAN :
           StickyReservePodInfo(id, ifname, ip, pod, ex, fail)
    \/ \E pod \in StickyPods : StickyHasReservedIP(pod)
    \/ \E mac \in MACs \cup {<< >>}, pod \in StickyPods, fail \in BOOLEAN :
           StickyReservePodMAC(mac, pod, fail)
    \/ \E pod \in StickyPods : StickyHasReservedMAC(pod)

SpecSticky == InitSticky /\ [][NextSticky]_vars

----------------------------------------------------------------------------
(* Claims on the sticky files *)

\* C10: a bind of an address to an identity that succeeds is followed by a
\* lookup of that identity that reports exactly that address, in the IP store
\* (ReservePodInfo with podIPIsExist false, then HasReservedIP) and in the MAC
\* store (reservePodInfo with a MAC, then hasReservedMAC), whatever the
\* identity was bound to before.
C10_BindThenLookup ==
    [][/\ \A id \in ContainerIDs, ifname \in Ifnames, ip \in IPs, pod \in StickyPods :
             StickyReservePodInfo(id, ifname, ip, pod, FALSE, FALSE)
                 => HasReservedIP(dir', pod.ns, pod.name) = [found |-> TRUE, ip |-> ip]
       /\ \A mac \in MACs, pod \in StickyPods :
             StickyReservePodMAC(mac, pod, FALSE)
                 => MACString(hasReservedMAC(macDir', pod.ns, pod.name)) = mac]_vars



\* the mapping files of the MAC store that name the identity
MacFilesOf(d, pod) ==
    {f \in DOMAIN d : /\ macResolvePodFileName(f).ns = pod.ns
                      /\ macResolvePodFileName(f).name = pod.name
                      /\ macResolvePodFileName(f).mac # << >>}

\* C11: in the MAC store, after any sequence of binds and unbinds from the
\* empty directory, an identity has at most one mapping file, and a bind of
\* another MAC to an identity that has a mapping file renames that file: the
\* old name is gone, the new name holds the old file.
C11_OneMacFilePerIdentity ==
    [][/\ \A pod \in StickyPods : Cardinality(MacFilesOf(macDir', pod)) <= 1
       /\ \A pod \in StickyPods, mac \in MACs :
             \A f \in MacFilesOf(macDir, pod) :
                 (StickyReservePodMAC(mac, pod, FALSE) /\ f # macPodFileName(mac, pod.ns, pod.name))
                     => /\ f \notin DOMAIN macDir'
                        /\ MacFilesOf(macDir', pod) = {macPodFileName(mac, pod.ns, pod.name)}
                        /\ macDir'[macPodFileName(mac, pod.ns, pod.name)] = macDir[f]]_vars

\* a lookup has reported a MAC that no mapping file names any more: the file
\* was renamed by a bind of the other MAC, and both identities have one file
C11_Witness ==
    /\ plugin = PluginBridge
    /\ look = Look("mac", TRUE, <<"02", ":", "a1">>)
    /\ \A pod \in StickyPods :
           MacFilesOf(macDir, pod) = {macPodFileName(<<"02", ":", "a2">>, pod.ns, pod.name)}
    /\ \E f \in DOMAIN macDir : macDir[f].data = deletionTag


\* the mapping files of the IP store that name the identity
IPFilesOf(d, pod) ==
    {f \in DOMAIN d : /\ resolvePodFileName(f).ns = pod.ns
                      /\ resolvePodFileName(f).name = pod.name
                      /\ resolvePodFileName(f).ip # << >>}

\* C12: in the IP store, after any sequence of binds (ReservePodInfo with
\* podIPIsExist false) from the empty directory, an identity has at most one
\* mapping file.
C12_OneIPFilePerIdentity ==
    \A pod \in StickyPods : Cardinality(IPFilesOf(dir, pod)) <= 1

\* C22 as stated: ReservePodInfo with podIPIsExist = true writes nothing: it
\* returns (true, nil) and leaves every file as it is, the mapping files and
\* the file of the address with its owner id and interface.
C22_KnownIdentityWritesNothing ==
    \A id \in ContainerIDs, ifname \in Ifnames, ip \in IPs, pod \in StickyPods :
        ReservePodInfo(dir, id, ifname, ip, pod.ns, pod.name, TRUE, FALSE)
            = [d |-> dir, ok |-> TRUE, err |-> "nil"]

\* C22, amended: ReservePodInfo with podIPIsExist = true returns (true, nil),
\* leaves every mapping file and every file of another address as it is, and
\* writes the caller's owner id and interface into the file of the address,
\* which it creates when it is not there.
C22_KnownIdentityWritesOwner ==
    \A id \in ContainerIDs, ifname \in Ifnames, ip \in IPs, pod \in StickyPods :
        LET r == ReservePodInfo(dir, id, ifname, ip, pod.ns, pod.name, TRUE, FALSE)
            fname == GetEscapedPath(IPString(ip))
        IN  /\ r.ok /\ r.err = "nil"
            /\ DOMAIN r.d = DOMAIN dir \cup {fname}
            /\ \A n \in DOMAIN dir \ {fname} : r.d[n] = dir[n]
            /\ r.d[fname].data = TrimSpace(id) \o LineBreak \o ifname

\* a bind of the known identity of c2 has just returned: the file of
\* 10.0.0.1 names c2, beside the mapping file of the address and the file of
\* 10.0.0.2, which names c1
C22_Witness ==
    /\ ret = Ret(TRUE, "nil")
    /\ Exists(dir, GetEscapedPath(<<"10.0.0.1">>))
    /\ dir[GetEscapedPath(<<"10.0.0.1">>)].data = <<"c2">> \o LineBreak \o <<"eth0">>
    /\ Exists(dir, GetEscapedPath(<<"10.0.0.2">>))
    /\ dir[GetEscapedPath(<<"10.0.0.2">>)].data = <<"c1">> \o LineBreak \o <<"eth0">>
    /\ \E pod \in StickyPods : IPFilesOf(dir, pod) # {}

\* C23: an unbind (reservePodInfo with an empty MAC) removes and renames no
\* file: the mapping file of the identity, if there is one, keeps its name and
\* gets the content "deleted", so that the lookup of the identity finds the
\* MAC it found before; without a mapping file the call succeeds and the
\* directory is as it was; the files of the other identities are untouched.
C23_UnbindKeepsFile ==
    \A pod \in StickyPods :
        LET r == reservePodInfo(macDir, << >>, pod.ns, pod.name, FALSE) IN
        /\ r.ok /\ r.err = "nil"
        /\ DOMAIN r.d = DOMAIN macDir
        /\ \A f \in MacFilesOf(macDir, pod) : r.d[f].data = deletionTag
        /\ \A f \in DOMAIN macDir \ MacFilesOf(macDir, pod) : r.d[f] = macDir[f]
        /\ hasReservedMAC(r.d, pod.ns, pod.name) = hasReservedMAC(macDir, pod.ns, pod.name)
        /\ MacFilesOf(macDir, pod) = {} => r.d = macDir

\* pod1 was unbound and the lookup has then found its MAC; the file of pod2
\* is not tombstoned
C23_Witness ==
    /\ plugin = PluginBridge
    /\ look = Look("mac", TRUE, <<"02", ":", "a1">>)
    /\ \E f \in DOMAIN macDir :
           /\ f = macPodFileName(<<"02", ":", "a1">>, <<"ns1">>, <<"pod1">>)
           /\ macDir[f].data = deletionTag
    /\ \E f \in MacFilesOf(macDir, [ns |-> <<"ns1">>, name |-> <<"pod2">>]) :
           macDir[f].data = << >>
    /\ MacFilesOf(macDir, [ns |-> <<"ns1">>, name |-> <<"pod2">>])
           # {macPodFileName(<<"02", ":", "a2">>, <<"ns1">>, <<"pod2">>)}

----------------------------------------------------------------------------
(* The workload identity in the CNI arguments (pkg/utils/env_args.go).      *)
(* In an argument string ";" and "=" are chunks of their own.               *)

NameLimit == 230

\* len(s): the bytes of the chunks
RECURSIVE StrLen(_)
StrLen(s) == IF s = << >> THEN 0 ELSE Len(Head(s)) + StrLen(Tail(s))

\* mutant of ResolvePairs: a combined length of the limit itself is refused
RECURSIVE ResolvePairsInclusive(_, _, _, _)
ResolvePairsInclusive(pairs, i, ns, name) ==
    IF i > Len(pairs)
    THEN IF StrLen(ns) + StrLen(name) >= NameLimit
         THEN [ns |-> << >>, name |-> << >>, err |-> "limit"]
         ELSE [ns |-> ns, name |-> name, err |-> "nil"]
    ELSE LET kv == Split(pairs[i], "=") IN
         IF Len(kv) # 2 THEN [ns |-> ns, name |-> name, err |-> "pair"]
         ELSE IF kv[1] = <<"K8S_POD_NAMESPACE">>
              THEN ResolvePairsInclusive(pairs, i + 1, kv[2], name)
         ELSE IF kv[1] = <<"K8S_POD_NAME">>
              THEN ResolvePairsInclusive(pairs, i + 1, ns, kv[2])
         ELSE ResolvePairsInclusive(pairs, i + 1, ns, name)

\* the loop of ResolvePodNSAndNameFromEnvArgs over the pairs from the i-th on
RECURSIVE ResolvePairs(_, _, _, _)
ResolvePairs(pairs, i, ns, name) ==
    IF i > Len(pairs)
    THEN IF StrLen(ns) + StrLen(name) > NameLimit
         THEN [ns |-> << >>, name |-> << >>, err |-> "limit"]
         ELSE [ns |-> ns, name |-> name, err |-> "nil"]
    ELSE LET kv == Split(pairs[i], "=") IN
         IF Len(kv) # 2 THEN [ns |-> ns, name |-> name, err |-> "pair"]
         ELSE IF kv[1] = <<"K8S_POD_NAMESPACE">> THEN ResolvePairs(pairs, i + 1, kv[2], name)
         ELSE IF kv[1] = <<"K8S_POD_NAME">> THEN ResolvePairs(pairs, i + 1, ns, kv[2])
         ELSE ResolvePairs(pairs, i + 1, ns, name)

ResolvePodNSAndNameFromEnvArgs(envArgs) ==
    IF envArgs = << >> THEN [ns |-> << >>, name |-> << >>, err |-> "nil"]
    ELSE ResolvePairs(Split(envArgs, ";"), 1, << >>, << >>)

Pods == {[ns |-> <<"ns1">>, name |-> <<"pod1">>],
         [ns |-> <<"ns1">>, name |-> <<"pod2">>]}

EnvOf(ns, name) ==
    <<"IgnoreUnknown", "=", "1", ";", "K8S_POD_NAMESPACE", "=">> \o ns
        \o <<";", "K8S_POD_NAME", "=">> \o name

\* the invocations: the CNI arguments and the container id of a workload
Workloads ==
    {[env |-> EnvOf(<<"ns1">>, <<"pod1">>), id |-> <<"c1">>],
     [env |-> EnvOf(<<"ns1">>, <<"pod2">>), id |-> <<"c2">>],
     [env |-> << >>, id |-> <<"c3">>]}

\* the invocations of host-local: one tracked workload and the untracked one
IPWorkloads == {w \in Workloads : w.id # <<"c2">>}

\* the identity in the arguments of each invocation, resolved once
Resolved == [e \in {w.env : w \in Workloads} |-> ResolvePodNSAndNameFromEnvArgs(e)]

PodOfArgs(envArgs) == Resolved[envArgs]

----------------------------------------------------------------------------
(* The reservation database (pkg/database/database.go): a table of rows     *)
(* with a primary key.  A row read or written is a ReservedIP or a          *)
(* ReservedMAC; fail says that the statement fails.                         *)

\* the zero time.Time, before every day of the clock
ZeroTime == -1

ZeroIP == [ID |-> 0, Namespace |-> << >>, Name |-> << >>, Deleted |-> FALSE,
           UpdatedAt |-> ZeroTime, IPv4 |-> << >>, IPv6 |-> << >>]

ZeroMAC == [ID |-> 0, Namespace |-> << >>, Name |-> << >>, Deleted |-> FALSE,
            UpdatedAt |-> ZeroTime, MAC |-> << >>]

Max(a, b) == IF a >= b THEN a ELSE b

\* db.Take with "namespace = ? and name = ?": any one matching row, or
\* ErrRecordNotFound with the destination left zero
Take(t, podNS, podName, fail, zero) ==
    LET m == {r \in t : r.Namespace = podNS /\ r.Name = podName} IN
    IF fail THEN {[row |-> zero, err |-> "io"]}
    ELSE IF m = {} THEN {[row |-> zero, err |-> "notfound"]}
    ELSE {[row |-> r, err |-> "nil"] : r \in m}

\* mutant of Save: the row is always inserted under the next key
SaveInsert(t, nid, clock, row, fail) ==
    IF fail THEN [t |-> t, nid |-> nid, err |-> "io"]
    ELSE [t |-> t \cup {[row EXCEPT !.ID = nid, !.UpdatedAt = clock]}, nid |-> nid + 1,
          err |-> "nil"]

\* db.Save: a row with a zero key is inserted under the next key, with the
\* time of the write for UpdatedAt unless the row brings one; any other row
\* replaces the row of its key, or is inserted under its key when no row has
\* it, with UpdatedAt set to the time of the write
Save(t, nid, clock, row, fail) ==
    LET stamped == [row EXCEPT !.UpdatedAt = clock]
        created == IF row.UpdatedAt = ZeroTime THEN stamped ELSE row
    IN  IF fail THEN [t |-> t, nid |-> nid, err |-> "io"]
        ELSE IF row.ID = 0
             THEN [t |-> t \cup {[created EXCEPT !.ID = nid]}, nid |-> nid + 1, err |-> "nil"]
        ELSE [t |-> {r \in t : r.ID # row.ID} \cup {stamped},
              nid |-> Max(nid, row.ID + 1), err |-> "nil"]

\* db.Delete with "deleted = ? and updated_at < ?", true, now - days
\* mutant of Purge: a row updated exactly days ago is expired too
PurgeInclusive(t, clock, days, fail) ==
    IF fail THEN t
    ELSE {r \in t : ~(r.Deleted /\ r.UpdatedAt <= clock - days)}

\* mutant of Purge: the deleted flag is not looked at
PurgeAnyRow(t, clock, days, fail) ==
    IF fail THEN t
    ELSE {r \in t : ~(r.UpdatedAt < clock - days)}

Purge(t, clock, days, fail) ==
    IF fail THEN t
    ELSE {r \in t : ~(r.Deleted /\ r.UpdatedAt < clock - days)}

GetReservedIP(t, podNS, podName, fail) == Take(t, podNS, podName, fail, ZeroIP)

ReserveIP(t, nid, clock, ip, fail) == Save(t, nid, clock, ip, fail)

PurgeExpiredIPs(t, clock, days, fail) == Purge(t, clock, days, fail)

GetReservedMAC(t, podNS, podName, fail) == Take(t, podNS, podName, fail, ZeroMAC)

ReserveMAC(t, nid, clock, mac, fail) == Save(t, nid, clock, mac, fail)

PurgeExpiredMACs(t, clock, days, fail) == Purge(t, clock, days, fail)

IsNotFoundErr(err) == err = "notfound"


----------------------------------------------------------------------------
(* Store.Reserve as one call under the lock, and the allocation built on it *)

\* Store.Reserve; fail: the system call that fails ("open", "write", "close",
\* "last"), or "none"
Reserve(d, p, id, ifname, ip, rangeID, fail) ==
    LET fname == GetEscapedPath(IPString(ip))
        content == TrimSpace(id) \o LineBreak \o ifname
        out == OpenExcl(d, fname, fail = "open")
        opened == OpenCreate(d, fname, p, content)
        written == WriteString(opened, fname, p, content)
    IN  CASE out = "exist" -> [d |-> d, ok |-> FALSE, err |-> "nil"]
          [] out = "io" -> [d |-> d, ok |-> FALSE, err |-> "io"]
          [] out = "created" /\ fail = "write" ->
                 [d |-> RemoveIfExists(Returned(opened, fname, p, FALSE), fname),
                  ok |-> FALSE, err |-> "io"]
          [] out = "created" /\ fail = "close" ->
                 [d |-> RemoveIfExists(Returned(written, fname, p, FALSE), fname),
                  ok |-> FALSE, err |-> "io"]
          [] out = "created" /\ fail = "last" ->
                 [d |-> Returned(written, fname, p, FALSE), ok |-> FALSE, err |-> "io"]
          [] OTHER ->
                 [d |-> WriteFile(Returned(written, fname, p, TRUE),
                                  LastIPFile(rangeID), IPString(ip)),
                  ok |-> TRUE, err |-> "nil"]

\* Store.LastReservedIP: nil when the marker cannot be read
LastReservedIP(d, rangeID) ==
    IF Exists(d, LastIPFile(rangeID)) THEN ParseIP(d[LastIPFile(rangeID)].data)
    ELSE NilIP

\* the addresses of the configured range, in the order of iteration
RangeSeq == <<[v |-> 4, host |-> 1], [v |-> 4, host |-> 2]>>

InRange(ip) == \E i \in DOMAIN RangeSeq : RangeSeq[i] = ip

\* the iteration of the range: from the address after the last reserved one,
\* around the range once
IterSeq(d, rangeID) ==
    LET last == LastReservedIP(d, rangeID)
        n == Len(RangeSeq)
        at == IF InRange(last) THEN CHOOSE i \in DOMAIN RangeSeq : RangeSeq[i] = last
              ELSE n
    IN  [i \in 1..n |-> RangeSeq[((at + i - 1) % n) + 1]]

\* the ordinary allocation: the requested address or nothing, else the first
\* address of the iteration that can be reserved
Get(d, p, id, ifname, requestedIP, fail) ==
    LET forced == Reserve(d, p, id, ifname, requestedIP, RangeID, fail)
        iter == IterSeq(d, RangeID)
        free == {i \in DOMAIN iter : ~Exists(d, GetEscapedPath(IPString(iter[i])))}
        first == iter[CHOOSE i \in free : \A j \in free : i <= j]
        found == Reserve(d, p, id, ifname, first, RangeID, fail)
    IN  IF requestedIP # NilIP
        THEN IF ~InRange(requestedIP) THEN [d |-> d, ip |-> NilIP, err |-> "range"]
             ELSE IF forced.err # "nil" THEN [d |-> forced.d, ip |-> NilIP, err |-> forced.err]
             ELSE IF ~forced.ok THEN [d |-> forced.d, ip |-> NilIP, err |-> "unavailable"]
             ELSE [d |-> forced.d, ip |-> requestedIP, err |-> "nil"]
        ELSE IF free = {} THEN [d |-> d, ip |-> NilIP, err |-> "exhausted"]
             ELSE IF found.err # "nil" THEN [d |-> found.d, ip |-> NilIP, err |-> found.err]
             ELSE [d |-> found.d, ip |-> first, err |-> "nil"]

----------------------------------------------------------------------------
(* The orchestrator of host-local (allocator_ext.go).  fault names the      *)
(* database statement of the call that fails: "open", "get", "save",        *)
(* "purge", or "none".                                                      *)

\* the range set is of the IPv4 family
isIPv4 == TRUE

\* mutant of getIP: a tombstoned row is taken for no row
getIPLiveOnly(t, podNS, podName, fault) ==
    IF podName = << >> THEN {[ip |-> NilIP, dbfail |-> FALSE]}
    ELSE IF fault = "open" THEN {[ip |-> NilIP, dbfail |-> TRUE]}
    ELSE {[ip |-> IF g.err = "nil" /\ ~g.row.Deleted
                  THEN ParseIP(IF isIPv4 THEN g.row.IPv4 ELSE g.row.IPv6)
                  ELSE NilIP,
           dbfail |-> g.err = "io"] : g \in GetReservedIP(t, podNS, podName, fault = "get")}

\* mutant of getIP: a row without an address of the family of the range gives
\* its address of the other family
getIPAnyFamily(t, podNS, podName, fault) ==
    IF podName = << >> THEN {[ip |-> NilIP, dbfail |-> FALSE]}
    ELSE IF fault = "open" THEN {[ip |-> NilIP, dbfail |-> TRUE]}
    ELSE {[ip |-> IF g.err = "nil"
                  THEN IF ParseIP(g.row.IPv4) # NilIP THEN ParseIP(g.row.IPv4)
                       ELSE ParseIP(g.row.IPv6)
                  ELSE NilIP,
           dbfail |-> g.err = "io"] : g \in GetReservedIP(t, podNS, podName, fault = "get")}

\* getIP: the sticky address of the identity, or nil; dbfail: a statement failed
getIP(t, podNS, podName, fault) ==
    IF podName = << >> THEN {[ip |-> NilIP, dbfail |-> FALSE]}
    ELSE IF fault = "open" THEN {[ip |-> NilIP, dbfail |-> TRUE]}
    ELSE {[ip |-> IF g.err = "nil"
                  THEN ParseIP(IF isIPv4 THEN g.row.IPv4 ELSE g.row.IPv6)
                  ELSE NilIP,
           dbfail |-> g.err = "io"] : g \in GetReservedIP(t, podNS, podName, fault = "get")}

\* mutant of saveIP: the row is written without being looked up
saveIPNoLookup(t, nid, clock, podNS, podName, ip, fault) ==
    IF podName = << >> \/ fault = "open" \/ fault = "get"
    THEN {[t |-> t, nid |-> nid, dbfail |-> podName # << >>]}
    ELSE LET w == ReserveIP(t, nid, clock,
                            [ZeroIP EXCEPT !.Namespace = podNS, !.Name = podName,
                                           !.IPv4 = IPString(ip)],
                            fault = "save")
         IN  {[t |-> w.t, nid |-> w.nid, dbfail |-> w.err # "nil"]}

\* saveIP: the row of the identity is read, changed and written
saveIP(t, nid, clock, podNS, podName, ip, fault) ==
    IF podName = << >> THEN {[t |-> t, nid |-> nid, dbfail |-> FALSE]}
    ELSE IF fault = "open" THEN {[t |-> t, nid |-> nid, dbfail |-> TRUE]}
    ELSE {LET row == [g.row EXCEPT !.Namespace = podNS, !.Name = podName,
                                   !.Deleted = FALSE]
              new == IF ip.v = 4 THEN [row EXCEPT !.IPv4 = IPString(ip)]
                     ELSE [row EXCEPT !.IPv6 = IPString(ip)]
              w == ReserveIP(t, nid, clock, new, fault = "save")
          IN  IF g.err # "nil" /\ ~IsNotFoundErr(g.err)
              THEN [t |-> t, nid |-> nid, dbfail |-> TRUE]
              ELSE [t |-> w.t, nid |-> w.nid, dbfail |-> w.err # "nil"]
          : g \in GetReservedIP(t, podNS, podName, fault = "get")}

\* markDeletedIP: the row of the identity, when there is one, is tombstoned
markDeletedIP(t, nid, clock, envArgs, fault) ==
    LET pod == PodOfArgs(envArgs) IN
    IF pod.name = << >> THEN {[t |-> t, nid |-> nid, dbfail |-> FALSE, wrote |-> FALSE]}
    ELSE IF fault = "open" THEN {[t |-> t, nid |-> nid, dbfail |-> TRUE, wrote |-> FALSE]}
    ELSE {LET w == ReserveIP(t, nid, clock, [g.row EXCEPT !.Deleted = TRUE], fault = "save")
          IN  IF g.err = "nil"
              THEN [t |-> w.t, nid |-> w.nid, dbfail |-> w.err # "nil", wrote |-> w.err = "nil"]
              ELSE [t |-> t, nid |-> nid, dbfail |-> g.err = "io", wrote |-> FALSE]
          : g \in GetReservedIP(t, pod.ns, pod.name, fault = "get")}


----------------------------------------------------------------------------
(* The orchestrator of bridge (main/bridge/store.go, second part) *)

\* getReservedMAC: the MAC the interface is to get ("" for a new one);
\* looked: the row of the identity was read
getReservedMAC(t, clock, netConfMac, envArgs, expirationDays, fault) ==
    LET pod == PodOfArgs(envArgs)
        purged == IF expirationDays > 0
                  THEN PurgeExpiredMACs(t, clock, expirationDays, fault = "purge")
                  ELSE t
    IN  IF netConfMac # << >>
        THEN {[t |-> t, mac |-> netConfMac, looked |-> FALSE, dbfail |-> FALSE]}
        ELSE IF pod.name = << >>
        THEN {[t |-> t, mac |-> << >>, looked |-> FALSE, dbfail |-> FALSE]}
        ELSE IF fault = "open"
        THEN {[t |-> t, mac |-> << >>, looked |-> FALSE, dbfail |-> TRUE]}
        ELSE {[t |-> purged,
               mac |-> IF g.err = "io" \/ g.row.MAC = << >> \/ ParseMAC(g.row.MAC) = NilMAC
                       THEN << >> ELSE g.row.MAC,
               looked |-> g.err # "io",
               dbfail |-> g.err = "io" \/ (expirationDays > 0 /\ fault = "purge")]
              : g \in GetReservedMAC(purged, pod.ns, pod.name, fault = "get")}

\* mutant of saveReservedMAC: the tombstone flag of the row read is kept
saveReservedMACKeepFlag(t, nid, clock, envArgs, containerMAC, fault) ==
    LET pod == PodOfArgs(envArgs) IN
    IF pod.name = << >> \/ fault = "open" THEN {[t |-> t, nid |-> nid, dbfail |-> fault = "open"]}
    ELSE {LET w == ReserveMAC(t, nid, clock,
                              [g.row EXCEPT !.Namespace = pod.ns, !.Name = pod.name,
                                            !.MAC = containerMAC],
                              fault = "save")
          IN  IF g.err = "io" THEN [t |-> t, nid |-> nid, dbfail |-> TRUE]
              ELSE [t |-> w.t, nid |-> w.nid, dbfail |-> w.err # "nil"]
          : g \in GetReservedMAC(t, pod.ns, pod.name, fault = "get")}

\* saveReservedMAC: the row of the identity is read, changed and written
saveReservedMAC(t, nid, clock, envArgs, containerMAC, fault) ==
    LET pod == PodOfArgs(envArgs) IN
    IF pod.name = << >> THEN {[t |-> t, nid |-> nid, dbfail |-> FALSE]}
    ELSE IF fault = "open" THEN {[t |-> t, nid |-> nid, dbfail |-> TRUE]}
    ELSE {LET w == ReserveMAC(t, nid, clock,
                              [g.row EXCEPT !.Namespace = pod.ns, !.Name = pod.name,
                                            !.MAC = containerMAC, !.Deleted = FALSE],
                              fault = "save")
          IN  IF g.err # "nil" /\ ~IsNotFoundErr(g.err)
              THEN [t |-> t, nid |-> nid, dbfail |-> TRUE]
              ELSE [t |-> w.t, nid |-> w.nid, dbfail |-> w.err # "nil"]
          : g \in GetReservedMAC(t, pod.ns, pod.name, fault = "get")}

\* releaseMAC: the expired rows are purged, the row of the identity is
\* tombstoned; fault "lock": the lock file cannot be opened
releaseMAC(t, nid, clock, envArgs, expirationDays, fault) ==
    LET pod == PodOfArgs(envArgs)
        purged == IF expirationDays > 0
                  THEN PurgeExpiredMACs(t, clock, expirationDays, fault = "purge")
                  ELSE t
    IN  IF fault = "lock" \/ fault = "open"
        THEN {[t |-> t, nid |-> nid, dbfail |-> fault = "open"]}
        ELSE IF pod.name = << >>
        THEN {[t |-> purged, nid |-> nid, dbfail |-> expirationDays > 0 /\ fault = "purge"]}
        ELSE {LET w == ReserveMAC(purged, nid, clock, [g.row EXCEPT !.Deleted = TRUE],
                                  fault = "save")
              IN  IF g.err = "nil"
                  THEN [t |-> w.t, nid |-> w.nid,
                        dbfail |-> w.err # "nil" \/ (expirationDays > 0 /\ fault = "purge")]
                  ELSE [t |-> purged, nid |-> nid,
                        dbfail |-> g.err = "io" \/ (expirationDays > 0 /\ fault = "purge")]
              : g \in GetReservedMAC(purged, pod.ns, pod.name, fault = "get")}


----------------------------------------------------------------------------
(* The orchestrators under concurrent plugin invocations: SpecAlloc.  A run *)
(* is of one plugin on one network.  A call that holds the lock over        *)
(* several statements runs in steps; a call that is one locked section      *)
(* with nothing of the model in between is one step.                        *)

MaxID == 3

MaxDay == 2

ExpirationDays == {-1, 0, 1}

\* the failures of the reservation inside an allocation; the failing system
\* calls of Reserve one by one are the steps of SpecDisk
IOFails == {"none", "write"}

\* the MACs a network configuration sets
PresetMACs == {<<"02", ":", "a1">>}

NoHist == [got |-> NilIP, saved |-> FALSE, rel |-> FALSE]

IPRet(ip, err) == [ok |-> err = "nil", err |-> err, ip |-> ip]

PodOf(a) == [ns |-> a.ns, name |-> a.name]

RowsOf(t, pod) == {r \in t : r.Namespace = pod.ns /\ r.Name = pod.name}

\* the history of the identities whose row a purge has removed is forgotten
HistAfterPurge(h, t, purged) ==
    [i \in DOMAIN h |-> IF RowsOf(t, i) # {} /\ RowsOf(purged, i) = {} THEN NoHist ELSE h[i]]

InitAlloc ==
    /\ dir = << >>
    /\ rpc = [p \in Procs |-> "idle"]
    /\ rarg = [p \in Procs |-> NoArg]
    /\ ret = IPRet(NilIP, "none")
    /\ macDir = << >>
    /\ look = NoLook
    /\ plugin \in {PluginHostLocal, PluginBridge}
    /\ table = {}
    /\ nextID = 1
    /\ now = 0
    /\ lock = "none"
    /\ hist = [i \in Pods |-> NoHist]

\* mutant of GetIPAllocate: a failed forced allocation is tried again unforced
GetIPAllocateRetry(d, p, id, ifname, knownIP, fail) ==
    LET r == Get(d, p, id, ifname, knownIP, fail) IN
    IF r.err # "nil" /\ knownIP # NilIP THEN Get(r.d, p, id, ifname, NilIP, "none")
    ELSE r

\* GetIP, lines 34 and 41: the one allocation of the call
GetIPAllocate(d, p, id, ifname, knownIP, fail) == Get(d, p, id, ifname, knownIP, fail)

\* mutant of KnownIP: the requested address goes before the sticky one
KnownIPRequestedFirst(sticky, requestedIP) ==
    IF requestedIP = NilIP THEN sticky ELSE requestedIP

\* mutant of KnownIP: the requested address is not used
KnownIPStickyOnly(sticky, requestedIP) == sticky

\* GetIP, lines 37-40: the forced candidate
KnownIP(sticky, requestedIP) == IF sticky = NilIP THEN requestedIP ELSE sticky

\* GetIP, lines 21-47: what the call has done when it reaches the upsert
\* (save) or returns before it.  known: the address the allocation was called
\* with; dbfail: a statement of the sticky lookup failed
GetIP(t, d, p, w, ifname, requestedIP, fault, fail) ==
    LET pod == PodOfArgs(w.env) IN
    {LET known == KnownIP(k.ip, requestedIP)
         r == GetIPAllocate(d, p, w.id, ifname, known, fail)
     IN  [d |-> r.d, ip |-> r.ip, err |-> r.err, known |-> known,
          save |-> pod.name # << >> /\ r.err = "nil", dbfail |-> k.dbfail]
     : k \in getIP(t, pod.ns, pod.name, fault)}

\* GetIP up to the upsert, under the lock: the sticky lookup and the
\* allocation; the call returns here when the workload is not tracked or the
\* allocation fails.  plain: what the allocation with the requested address
\* would have given (history)
GetIPAcquire(p, w, ifname, requestedIP, fault, fail) ==
    /\ plugin = PluginHostLocal
    /\ rpc[p] = "idle"
    /\ lock = "none"
    /\ PodOfArgs(w.env).name # << >> => nextID <= MaxID
    /\ \E o \in GetIP(table, dir, p, w, ifname, requestedIP, fault, fail) :
         /\ fault # "none" => o.dbfail
         /\ fail # "none" => o.err = "io"
         /\ dir' = o.d
         /\ IF o.save
            THEN /\ rpc' = [rpc EXCEPT ![p] = "save"]
                 /\ rarg' = [rarg EXCEPT ![p] =
                                [ns |-> PodOfArgs(w.env).ns, name |-> PodOfArgs(w.env).name,
                                 ip |-> o.ip,
                                 plain |-> Get(dir, p, w.id, ifname, requestedIP, fail).ip]]
                 /\ lock' = p
                 /\ UNCHANGED ret
            ELSE /\ ret' = IPRet(o.ip, o.err)
                 /\ UNCHANGED <<rpc, rarg, lock>>
    /\ UNCHANGED <<macDir, look, plugin, table, nextID, now, hist>>

\* GetIP, lines 49-50: the upsert, the unlock and the return
GetIPSave(p, fault) ==
    LET a == rarg[p] IN
    /\ plugin = PluginHostLocal
    /\ rpc[p] = "save"
    /\ \E w \in saveIP(table, nextID, now, a.ns, a.name, a.ip, fault) :
           /\ fault # "none" => w.dbfail
           /\ table' = w.t
           /\ nextID' = w.nid
           /\ hist' = [hist EXCEPT ![PodOf(a)] =
                          [got |-> a.ip, saved |-> ~w.dbfail, rel |-> FALSE]]
    /\ ret' = IPRet(a.ip, "nil")
    /\ lock' = "none"
    /\ rpc' = [rpc EXCEPT ![p] = "idle"]
    /\ rarg' = [rarg EXCEPT ![p] = NoArg]
    /\ UNCHANGED <<dir, macDir, look, plugin, now>>

\* the release of a workload: under the lock, markDeletedIP and the removal
\* of the reservation files of the container
IPRelease(w, ifname, fault, bad) ==
    LET pod == PodOfArgs(w.env)
        i == [ns |-> pod.ns, name |-> pod.name]
        r == ReleaseByID(dir, w.id, ifname, bad)
    IN  /\ plugin = PluginHostLocal
        /\ SomeIdle
        /\ lock = "none"
        /\ dir' = r.d
        /\ \E m \in markDeletedIP(table, nextID, now, w.env, fault) :
               /\ fault # "none" => m.dbfail
               /\ table' = m.t
               /\ nextID' = m.nid
               /\ hist' = IF i \in DOMAIN hist /\ m.wrote /\ hist[i].got # NilIP
                             /\ ~Exists(r.d, GetEscapedPath(IPString(hist[i].got)))
                          THEN [hist EXCEPT ![i].rel = TRUE]
                          ELSE hist
        /\ UNCHANGED <<rpc, rarg, ret, macDir, look, plugin, now, lock>>

ReleaseExpiredIPs(expirationDays, fault) ==
    LET purged == IF expirationDays = 0 \/ fault = "open" THEN table
                  ELSE PurgeExpiredIPs(table, now, expirationDays, fault = "purge")
    IN  /\ plugin = PluginHostLocal
        /\ SomeIdle
        /\ lock = "none"
        /\ fault # "none" => expirationDays # 0
        /\ table' = purged
        /\ hist' = HistAfterPurge(hist, table, purged)
        /\ UNCHANGED <<dir, rpc, rarg, ret, macDir, look, plugin, nextID, now, lock>>

\* the days pass
Tick ==
    /\ now < MaxDay
    /\ now' = MaxDay
    /\ UNCHANGED <<dir, rpc, rarg, ret, macDir, look, plugin, table, nextID, lock, hist>>

\* bridge: getReservedMAC, one locked section, unless the MAC is configured
MacLookup(p, w, netConfMac, expirationDays, fault) ==
    /\ plugin = PluginBridge
    /\ rpc[p] = "idle"
    /\ lock = "none"
    /\ \E g \in getReservedMAC(table, now, netConfMac, w.env, expirationDays, fault) :
           /\ fault # "none" => g.dbfail
           /\ table' = g.t
           /\ rarg' = [rarg EXCEPT ![p] = [env |-> w.env, mac |-> g.mac, looked |-> g.looked]]
    /\ rpc' = [rpc EXCEPT ![p] = "wired"]
    /\ UNCHANGED <<dir, ret, macDir, look, plugin, nextID, now, lock, hist>>

\* bridge: the interface is up with the MAC looked up, or with a new one;
\* saveReservedMAC, one locked section
MacSave(p, fresh, fault) ==
    LET a == rarg[p]
        containerMAC == IF a.mac # << >> THEN a.mac ELSE fresh
    IN  /\ plugin = PluginBridge
        /\ rpc[p] = "wired"
        /\ lock = "none"
        /\ nextID <= MaxID
        /\ \E w \in saveReservedMAC(table, nextID, now, a.env, containerMAC, fault) :
               /\ fault # "none" => w.dbfail
               /\ a.mac # << >> => fresh = a.mac
               /\ table' = w.t
               /\ nextID' = w.nid
        /\ rpc' = [rpc EXCEPT ![p] = "idle"]
        /\ rarg' = [rarg EXCEPT ![p] = NoArg]
        /\ UNCHANGED <<dir, ret, macDir, look, plugin, now, lock, hist>>

\* bridge: the interface cannot be set up, nothing is saved
MacAbort(p) ==
    /\ plugin = PluginBridge
    /\ rpc[p] = "wired"
    /\ rpc' = [rpc EXCEPT ![p] = "idle"]
    /\ rarg' = [rarg EXCEPT ![p] = NoArg]
    /\ UNCHANGED <<dir, ret, macDir, look, plugin, table, nextID, now, lock, hist>>

\* bridge: releaseMAC, one locked section
MacRelease(w, expirationDays, fault) ==
    /\ plugin = PluginBridge
    /\ SomeIdle
    /\ lock = "none"
    /\ \E m \in releaseMAC(table, nextID, now, w.env, expirationDays, fault) :
           /\ fault \notin {"none", "lock"} => m.dbfail
           /\ table' = m.t
           /\ nextID' = m.nid
    /\ UNCHANGED <<dir, rpc, rarg, ret, macDir, look, plugin, now, lock, hist>>

NextAlloc ==
    \/ \E p \in Procs, w \in IPWorkloads, ifname \in Ifnames, ip \in IPs \cup {NilIP},
          fault \in {"none", "open", "get"}, fail \in IOFails :
           GetIPAcquire(p, w, ifname, ip, fault, fail)
    \/ \E p \in Procs, fault \in {"none", "open", "get", "save"} : GetIPSave(p, fault)
    \/ \E w \in IPWorkloads, ifname \in Ifnames, fault \in {"none", "open", "get", "save"} :
           \E bad \in SUBSET Matching(dir, w.id, ifname) :
               IPRelease(w, ifname, fault, bad)
    \/ \E days \in ExpirationDays, fault \in {"none", "open", "purge"} :
           ReleaseExpiredIPs(days, fault)
    \/ Tick
    \/ \E p \in Procs, w \in Workloads, mac \in PresetMACs \cup {<< >>}, days \in ExpirationDays,
          fault \in {"none", "open", "purge", "get"} :
           MacLookup(p, w, mac, days, fault)
    \/ \E p \in Procs, fresh \in MACs \cup PresetMACs, fault \in {"none", "open", "get", "save"} :
           MacSave(p, fresh, fault)
    \/ \E p \in Procs : MacAbort(p)
    \/ \E w \in Workloads, days \in ExpirationDays,
          fault \in {"none", "lock", "open", "purge", "get", "save"} :
           MacRelease(w, days, fault)

SpecAlloc == InitAlloc /\ [][NextAlloc]_vars


----------------------------------------------------------------------------
(* Claims on the orchestrators *)

Free(d, ip) == ~Exists(d, GetEscapedPath(IPString(ip)))

Identity(pod) == [ns |-> pod.ns, name |-> pod.name]

Requests == IPs \cup {NilIP}

\* the identity of w was released after its last acquire, which gave an
\* address that is free now, and its row is still there
ReleasedCycle(w) ==
    LET i == Identity(PodOfArgs(w.env)) IN
    /\ i \in DOMAIN hist
    /\ hist[i].got # NilIP
    /\ hist[i].rel
    /\ RowsOf(table, i) # {}
    /\ Free(dir, hist[i].got)

\* p's acquire has reserved ip and goes on to the upsert
Acquired(p, ip) == rpc'[p] = "save" /\ rarg'[p].ip = ip

C4_UpsertAfterAcquire ==
    [][/\ \A p \in Procs :
             GetIPSave(p, "none") =>
                 /\ RowsOf(table', Identity(rarg[p])) # {}
                 /\ \A r \in RowsOf(table', Identity(rarg[p])) :
                        r.IPv4 = IPString(rarg[p].ip) /\ ~r.Deleted
       /\ \A p \in Procs, fresh \in MACs \cup PresetMACs :
             (MacSave(p, fresh, "none") /\ PodOfArgs(rarg[p].env).name # << >>) =>
                 /\ RowsOf(table', Identity(PodOfArgs(rarg[p].env))) # {}
                 /\ \A r \in RowsOf(table', Identity(PodOfArgs(rarg[p].env))) :
                        r.MAC = fresh /\ ~r.Deleted]_vars

\* a row written again, after a day has passed, by an acquire that succeeded
C4_Witness ==
    /\ now > 0
    /\ ret.ok
    /\ \E i \in DOMAIN hist :
           /\ hist[i].got = ret.ip
           /\ hist[i].saved
           /\ \E r \in RowsOf(table, i) :
                  r.ID = 1 /\ nextID = 2 /\ r.UpdatedAt = now
                      /\ r.IPv4 = IPString(ret.ip) /\ ~r.Deleted


\* the identity of w has a row with a sticky address that another owner has
\* reserved, and another address of the range is free
StickyTaken(w, ifname) ==
    LET i == Identity(PodOfArgs(w.env)) IN
    /\ plugin = PluginHostLocal
    /\ i.name # << >>
    /\ \E r \in RowsOf(table, i) :
           /\ InRange(ParseIP(r.IPv4))
           /\ ~Free(dir, ParseIP(r.IPv4))
           /\ TrimSpace(dir[GetEscapedPath(r.IPv4)].data) # TrimSpace(w.id) \o LineBreak \o ifname
    /\ \E other \in IPs : Free(dir, other)

C6_ForcedFailurePropagates ==
    plugin = PluginHostLocal =>
      \A p \in Procs, w \in IPWorkloads, ifname \in Ifnames, ip \in Requests,
         fault \in {"none", "open", "get"}, fail \in IOFails :
         PodOfArgs(w.env).name # << >> =>
           \A o \in GetIP(table, dir, p, w, ifname, ip, fault, fail) :
             LET g == Get(dir, p, w.id, ifname, o.known, fail) IN
             (o.known # NilIP /\ g.err # "nil") =>
                 /\ o.err = g.err
                 /\ o.ip = NilIP
                 /\ o.d = g.d
                 /\ ~o.save

\* a forced allocation has just failed with an I/O error, the row in place
C6_Witness ==
    /\ plugin = PluginHostLocal
    /\ ret = IPRet(NilIP, "io")
    /\ lock = "none"
    /\ \E i \in DOMAIN hist : hist[i].got # NilIP /\ RowsOf(table, i) # {}
    /\ \A r \in table : Free(dir, ParseIP(r.IPv4))


DBFaults == {"open", "get", "save"}

\* a failing sticky lookup is no sticky information: the call does what the
\* ordinary allocation with the requested address does; and every other call
\* of the orchestrators ends, whatever statement of the database fails
LookupFailureIsNoSticky ==
    /\ plugin = PluginHostLocal =>
         /\ \A p \in Procs, w \in IPWorkloads, ifname \in Ifnames, ip \in Requests,
               fault \in {"open", "get"}, fail \in IOFails :
               \A o \in GetIP(table, dir, p, w, ifname, ip, fault, fail) :
                   LET g == Get(dir, p, w.id, ifname, ip, fail) IN
                   (PodOfArgs(w.env).name # << >> /\ o.dbfail) =>
                       o.d = g.d /\ o.ip = g.ip /\ o.err = g.err
         /\ \A w \in IPWorkloads, fault \in DBFaults :
               markDeletedIP(table, nextID, now, w.env, fault) # {}
    /\ plugin = PluginBridge =>
         /\ \A w \in Workloads, days \in ExpirationDays, fault \in {"open", "get"} :
               /\ getReservedMAC(table, now, << >>, w.env, days, fault) # {}
               /\ \A g \in getReservedMAC(table, now, << >>, w.env, days, fault) :
                      g.dbfail => g.mac = << >>
         /\ \A w \in Workloads, mac \in MACs, fault \in DBFaults :
               saveReservedMAC(table, nextID, now, w.env, mac, fault) # {}
         /\ \A w \in Workloads, days \in ExpirationDays, fault \in DBFaults :
               releaseMAC(table, nextID, now, w.env, days, fault) # {}

\* C7 as stated: a failure of the database never fails the call, and whatever
\* statement of GetIP fails, the open, the lookup or the upsert, GetIP returns
\* what the ordinary allocation with the requested address returns.
C7_DBFailureIsPlainAllocation ==
    /\ []LookupFailureIsNoSticky
    /\ [][\A p \in Procs, fault \in DBFaults :
            GetIPSave(p, fault) => ret' = IPRet(rarg[p].plain, "nil")]_vars

\* C7, amended: the same when the open or the lookup fails; when the upsert
\* fails, GetIP returns the address it has allocated, the sticky or the
\* requested one, without an error.
C7_DBFailureNeverFails ==
    /\ []LookupFailureIsNoSticky
    /\ [][\A p \in Procs, fault \in DBFaults :
            GetIPSave(p, fault) =>
                /\ ret' = IPRet(rarg[p].ip, "nil")
                /\ rpc'[p] = "idle"
                /\ lock' = "none"
                /\ dir' = dir]_vars

\* an acquire has returned its address though nothing could be stored, and no
\* row of the identity exists
C7_Witness ==
    /\ plugin = PluginHostLocal
    /\ ret.ok
    /\ lock = "none"
    /\ \E i \in DOMAIN hist :
           /\ hist[i].got = ret.ip
           /\ ~hist[i].saved
           /\ RowsOf(table, i) = {}
           /\ ~Free(dir, ret.ip)

Identities(t) == {[ns |-> r.Namespace, name |-> r.Name] : r \in t}

IDs(t) == {r.ID : r \in t}

\* C8: the table has at most one row of an identity after any step, and the
\* upsert of an acquire of an identity that has a row inserts no row.
C8_OneRowPerIdentity ==
    [][/\ \A i \in Identities(table') : Cardinality(RowsOf(table', i)) <= 1
       /\ \A p \in Procs :
             /\ (rpc[p] = "save" /\ rpc'[p] = "idle" /\ RowsOf(table, Identity(rarg[p])) # {})
                    => IDs(table') = IDs(table)
             /\ (rpc[p] = "wired" /\ rpc'[p] = "idle"
                     /\ RowsOf(table, Identity(PodOfArgs(rarg[p].env))) # {})
                    => IDs(table') = IDs(table)]_vars

\* two identities have a row each, the first written again a day later by an
\* acquire
C8_Witness ==
    /\ Cardinality(Identities(table)) = 2
    /\ Cardinality(table) = 2
    /\ nextID = 3
    /\ \E r \in table : r.ID = 1 /\ r.UpdatedAt = MaxDay /\ ~r.Deleted
    /\ \E r \in table : r.ID = 2 /\ r.UpdatedAt = 0

\* p has looked the row of its identity up and has not written it yet
InRMW(p) ==
    \/ rpc[p] = "save"
    \/ rpc[p] = "wired" /\ rarg[p].looked

\* C9: between the sticky lookup and the upsert of one acquire no step of
\* another call on the network occurs: the next step is the upsert of that
\* acquire (or the clock's).
C9_SingleLockPair ==
    [][\A p \in Procs : InRMW(p) => (rpc'[p] # rpc[p] \/ now' # now)]_vars


\* C25: with a retention of zero or fewer days no operation of the
\* orchestrators runs the expiry sweep: ReleaseExpiredIPs, getReservedMAC and
\* releaseMAC delete no row of the database.
C25_NoSweepWithoutRetention ==
    [][\A days \in {n \in ExpirationDays : n <= 0} :
           /\ \A fault \in {"none", "open", "purge"} :
                  ReleaseExpiredIPs(days, fault) => IDs(table) \subseteq IDs(table')
           /\ \A p \in Procs, w \in Workloads, mac \in PresetMACs \cup {<< >>},
                 fault \in {"none", "open", "purge", "get"} :
                  MacLookup(p, w, mac, days, fault) => IDs(table) \subseteq IDs(table')
           /\ \A w \in Workloads,
                 fault \in {"none", "lock", "open", "purge", "get", "save"} :
                  MacRelease(w, days, fault) => IDs(table) \subseteq IDs(table')]_vars


----------------------------------------------------------------------------
(* The reservation database under direct calls (pkg/database): SpecDB.  A   *)
(* run is on the table of one plugin; the rows saved are arbitrary.         *)

MaxRows == 2

\* the retention windows of the purges
PurgeDays == {-1, 0, 1, 2}

\* the address text of a row of the plugin's table
AddrOf(kind, r) == IF kind = PluginHostLocal THEN r.IPv4 ELSE r.MAC

DBAddrs(kind) == IF kind = PluginHostLocal THEN {IPString(ip) : ip \in IPs} ELSE MACs

\* the records a caller builds
DBRecords(kind) ==
    {IF kind = PluginHostLocal
     THEN [ZeroIP EXCEPT !.ID = id, !.Namespace = pod.ns, !.Name = pod.name,
                         !.Deleted = del, !.UpdatedAt = upd, !.IPv4 = addr]
     ELSE [ZeroMAC EXCEPT !.ID = id, !.Namespace = pod.ns, !.Name = pod.name,
                          !.Deleted = del, !.UpdatedAt = upd, !.MAC = addr]
     : id \in 0..MaxRows, pod \in Pods, del \in BOOLEAN, upd \in {ZeroTime, 0},
       addr \in DBAddrs(kind)}

DBGetReserved(kind, t, podNS, podName, fail) ==
    IF kind = PluginHostLocal THEN GetReservedIP(t, podNS, podName, fail)
    ELSE GetReservedMAC(t, podNS, podName, fail)

DBReserveRow(kind, t, nid, clock, row, fail) ==
    IF kind = PluginHostLocal THEN ReserveIP(t, nid, clock, row, fail)
    ELSE ReserveMAC(t, nid, clock, row, fail)

DBPurgeExpired(kind, t, clock, days, fail) ==
    IF kind = PluginHostLocal THEN PurgeExpiredIPs(t, clock, days, fail)
    ELSE PurgeExpiredMACs(t, clock, days, fail)

InitDB ==
    /\ dir = << >>
    /\ rpc = [p \in Procs |-> "idle"]
    /\ rarg = [p \in Procs |-> NoArg]
    /\ ret = Ret(FALSE, "none")
    /\ macDir = << >>
    /\ look = NoLook
    /\ plugin \in {PluginHostLocal, PluginBridge}
    /\ table = {}
    /\ nextID = 1
    /\ now = 0
    /\ lock = "none"
    /\ hist = << >>

\* ReserveIP / ReserveMAC
DBReserve(row, fail) ==
    LET w == DBReserveRow(plugin, table, nextID, now, row, fail) IN
    /\ w.nid <= MaxRows + 1
    /\ table' = w.t
    /\ nextID' = w.nid
    /\ ret' = Ret(w.err = "nil", w.err)
    /\ UNCHANGED <<dir, rpc, rarg, macDir, look, plugin, now, lock, hist>>

\* GetReservedIP / GetReservedMAC
DBGet(pod, fail) ==
    /\ \E g \in DBGetReserved(plugin, table, pod.ns, pod.name, fail) :
           /\ look' = Look(IF g.row.Deleted THEN "tombstone" ELSE "row", g.err = "nil",
                           AddrOf(plugin, g.row))
           /\ ret' = Ret(g.err = "nil", g.err)
    /\ UNCHANGED <<dir, rpc, rarg, macDir, plugin, table, nextID, now, lock, hist>>

\* PurgeExpiredIPs / PurgeExpiredMACs
DBPurge(days, fail) ==
    /\ table' = DBPurgeExpired(plugin, table, now, days, fail)
    /\ ret' = Ret(~fail, IF fail THEN "io" ELSE "nil")
    /\ UNCHANGED <<dir, rpc, rarg, macDir, look, plugin, nextID, now, lock, hist>>

\* a day passes
DBTick ==
    /\ now < MaxDay
    /\ now' = now + 1
    /\ UNCHANGED <<dir, rpc, rarg, ret, macDir, look, plugin, table, nextID, lock, hist>>

NextDB ==
    \/ \E row \in DBRecords(plugin), fail \in BOOLEAN : DBReserve(row, fail)
    \/ \E pod \in Pods, fail \in BOOLEAN : DBGet(pod, fail)
    \/ \E days \in PurgeDays, fail \in BOOLEAN : DBPurge(days, fail)
    \/ DBTick

SpecDB == InitDB /\ [][NextDB]_vars


----------------------------------------------------------------------------
(* Claims on the reservation database, under SpecDB *)

SameIdentity(r, q) == r.Namespace = q.Namespace /\ r.Name = q.Name

\* what a get of the identity can answer
Answers(kind, t, pod) ==
    {[err |-> g.err, addr |-> AddrOf(kind, g.row), deleted |-> g.row.Deleted]
     : g \in DBGetReserved(kind, t, pod.ns, pod.name, FALSE)}

\* the upsert of row, then the get of its identity, gives the address and the
\* flag of row, and the gets of the other identities answer as before
RoundTrip(row) ==
    LET w == DBReserveRow(plugin, table, nextID, now, row, FALSE) IN
    /\ w.err = "nil"
    /\ Answers(plugin, w.t, [ns |-> row.Namespace, name |-> row.Name])
           = {[err |-> "nil", addr |-> AddrOf(plugin, row), deleted |-> row.Deleted]}
    /\ \A pod \in Pods :
           (pod.ns # row.Namespace \/ pod.name # row.Name)
               => Answers(plugin, w.t, pod) = Answers(plugin, table, pod)

\* row has the key of the row of its identity, or its identity has no row;
\* its key is not the key of a row of another identity
KeyedByIdentity(row) ==
    \A r \in table : SameIdentity(r, row) <=> r.ID = row.ID

\* C13 as stated: for every record, the upsert followed by the get of the
\* record's identity returns, without error, the address and the deleted flag
\* written, and an upsert does not change what the other identities get.
C13_RoundTrip ==
    \A row \in DBRecords(plugin) : RoundTrip(row)

\* C13, amended: the same for every record whose key is the key of the row of
\* its identity, or whose identity has no row and whose key is no row's.
C13_RoundTripByKey ==
    \A row \in DBRecords(plugin) : KeyedByIdentity(row) => RoundTrip(row)

\* a row was written again in place a day after its insertion, tombstoned,
\* and the get of its identity has answered with it, beside another row
C13_Witness ==
    /\ now = 1
    /\ ret = Ret(TRUE, "nil")
    /\ Cardinality(table) = 2
    /\ \E r \in table :
           /\ r.ID = 1 /\ r.Deleted /\ r.UpdatedAt = 1
           /\ look = Look("tombstone", TRUE, AddrOf(plugin, r))
           /\ \A q \in table : q.ID # 1 => ~SameIdentity(q, r) /\ q.UpdatedAt = 0


\* the rows a purge deletes
Purged(days) == table \ DBPurgeExpired(plugin, table, now, days, FALSE)

\* the age of a row in days
Age(r) == now - r.UpdatedAt

NotFoundAfterPurge(days, r) ==
    \A a \in Answers(plugin, DBPurgeExpired(plugin, table, now, days, FALSE),
                     [ns |-> r.Namespace, name |-> r.Name]) :
        IsNotFoundErr(a.err)

\* C14 as stated: purgeExpired(days) deletes a tombstoned row that is N days
\* old if and only if days < N, and after the deletion the get of the row's
\* identity fails with the not-found error.
C14_ExpiryBoundary ==
    \A days \in PurgeDays : \A r \in table :
        r.Deleted =>
            /\ r \in Purged(days) <=> days < Age(r)
            /\ r \in Purged(days) => NotFoundAfterPurge(days, r)

\* C14, amended: the same, the get failing with the not-found error when the
\* purge leaves no other row of the identity.
C14_ExpiryBoundaryOneRow ==
    \A days \in PurgeDays : \A r \in table :
        r.Deleted =>
            /\ r \in Purged(days) <=> days < Age(r)
            /\ (/\ r \in Purged(days)
                /\ \A q \in table \ Purged(days) : ~SameIdentity(q, r))
                   => NotFoundAfterPurge(days, r)

\* two rows were written; the purge has deleted one and has kept a tombstone
\* that is one day old, and the get of the deleted row's identity has failed
C14_Witness ==
    /\ now = MaxDay
    /\ nextID = 3
    /\ ret = Ret(FALSE, "notfound")
    /\ look.found = FALSE
    /\ \E r \in table :
           /\ table = {r}
           /\ r.ID = 1 /\ r.Deleted /\ Age(r) = 1
           /\ r \in Purged(0) /\ r \notin Purged(1)

\* C15: purgeExpired(days) deletes no row whose deleted flag is false,
\* whatever the age of the row and whatever days is, and the rows it does not
\* delete are in the table as they were; a purge that fails deletes nothing.
C15_LiveRowsKept ==
    \A days \in PurgeDays :
        /\ \A r \in table : ~r.Deleted => r \notin Purged(days)
        /\ DBPurgeExpired(plugin, table, now, days, FALSE) \subseteq table
        /\ DBPurgeExpired(plugin, table, now, days, TRUE) = table

\* two rows were written; the purge has deleted one and has kept a live row
\* that is older than every retention asked for
C15_Witness ==
    /\ now = MaxDay
    /\ nextID = 3
    /\ ret = Ret(TRUE, "nil")
    /\ \E r \in table :
           /\ table = {r}
           /\ r.ID = 1 /\ ~r.Deleted /\ Age(r) = MaxDay
           /\ \A days \in PurgeDays : days < Age(r) \/ days = MaxDay


----------------------------------------------------------------------------
(* The flat-file store under one caller at a time, in a directory that may  *)
(* hold reservations written by a previous version: SpecRelease             *)

ReleaseIfnames == {<<"eth0">>, <<"eth1">>}

\* a reservation file of a previous version: the owner id alone
LegacyFile(id) == NewFile(TrimSpace(id))

\* the directories a previous version has left
LegacyDirs ==
    {d \in UNION {[{GetEscapedPath(IPString(ip)) : ip \in S} -> {LegacyFile(id) : id \in ContainerIDs}]
                  : S \in SUBSET IPs} :
        Cardinality(DOMAIN d) <= 1}

NoCall == << >>

\* the last call of ReleaseByID, with the found it computed
Call(id, ifname, found) == <<[id |-> id, ifname |-> ifname, found |-> found]>>

InitRelease ==
    /\ dir \in LegacyDirs
    /\ rpc = [p \in Procs |-> "idle"]
    /\ rarg = [p \in Procs |-> NoArg]
    /\ ret = Ret(FALSE, "none")
    /\ macDir = << >>
    /\ look = NoLook
    /\ plugin = PluginHostLocal
    /\ table = {}
    /\ nextID = 1
    /\ now = 0
    /\ lock = "none"
    /\ hist = NoCall

RelReserve(id, ifname, ip, fail) ==
    LET r == Reserve(dir, "p1", id, ifname, ip, RangeID, fail) IN
    /\ dir' = r.d
    /\ ret' = Ret(r.ok, r.err)
    /\ hist' = NoCall
    /\ UNCHANGED <<rpc, rarg, macDir, look, plugin, table, nextID, now, lock>>

RelReleaseByID(id, ifname, bad) ==
    LET r == ReleaseByID(dir, id, ifname, bad) IN
    /\ dir' = r.d
    /\ ret' = Ret(r.err = "nil", r.err)
    /\ hist' = Call(id, ifname, r.found)
    /\ UNCHANGED <<rpc, rarg, macDir, look, plugin, table, nextID, now, lock>>

\* Store.GetByID: one scan; a file counts when its trimmed content is the id
\* and interface or the id alone, and its name parses as an address
GetByID(d, id, ifname) ==
    LET match == TrimSpace(id) \o LineBreak \o ifname
        matchOld == TrimSpace(id)
    IN  {ParseIP(n) : n \in {m \in DOMAIN d :
                                 /\ TrimSpace(d[m].data) \in {match, matchOld}
                                 /\ ParseIP(m) # NilIP}}

\* the return of GetByID
IPsRet(ips) == [ok |-> TRUE, err |-> "nil", ips |-> ips]

RelGetByID(id, ifname) ==
    /\ ret' = IPsRet(GetByID(dir, id, ifname))
    /\ hist' = NoCall
    /\ UNCHANGED <<dir, rpc, rarg, macDir, look, plugin, table, nextID, now, lock>>

RelReservePodInfo(id, ifname, ip, pod, fail) ==
    LET r == ReservePodInfo(dir, id, ifname, ip, pod.ns, pod.name, FALSE, fail) IN
    /\ dir' = r.d
    /\ ret' = Ret(r.ok, r.err)
    /\ hist' = NoCall
    /\ UNCHANGED <<rpc, rarg, macDir, look, plugin, table, nextID, now, lock>>

NextRelease ==
    \/ \E id \in ContainerIDs, ifname \in ReleaseIfnames, ip \in IPs,
          fail \in {"none", "open", "write", "close", "last"} :
           RelReserve(id, ifname, ip, fail)
    \/ \E id \in ContainerIDs, ifname \in ReleaseIfnames :
           \E bad \in SUBSET Matching(dir, id, ifname) :
               RelReleaseByID(id, ifname, bad)
    \/ \E id \in ContainerIDs, ifname \in ReleaseIfnames, ip \in IPs,
          pod \in StickyPods, fail \in BOOLEAN :
           RelReservePodInfo(id, ifname, ip, pod, fail)
    \/ \E id \in ContainerIDs, ifname \in ReleaseIfnames : RelGetByID(id, ifname)

SpecRelease == InitRelease /\ [][NextRelease]_vars


----------------------------------------------------------------------------
(* Claims on ReleaseByID, under SpecRelease *)

\* the files whose trimmed content is text
FilesWith(d, text) == {n \in DOMAIN d : TrimSpace(d[n].data) = text}

NewFormat(d, id, ifname) == FilesWith(d, id \o LineBreak \o ifname)

LegacyFormat(d, id) == FilesWith(d, id)

\* a call that removes nothing: no error, nothing found, no file touched
Untouched(d, id, ifname) ==
    ReleaseByID(d, id, ifname, {}) = [d |-> d, found |-> FALSE, err |-> "nil"]

\* C16 as stated: ReleaseByID for an owner id and interface that match no
\* file returns no error, finds nothing and leaves every file as it is, and
\* so does a second call after a release that removed the owner's files.
C16_ReleaseAgain ==
    \A id \in ContainerIDs, ifname \in ReleaseIfnames :
        /\ Matching(dir, id, ifname) = {} => Untouched(dir, id, ifname)
        /\ LET r == ReleaseByID(dir, id, ifname, {}) IN
           r.found => Untouched(r.d, id, ifname)

\* C16, amended: the second call behaves so when the first release has left
\* no file that holds the owner id alone.
C16_ReleaseAgainNoLegacy ==
    \A id \in ContainerIDs, ifname \in ReleaseIfnames :
        /\ Matching(dir, id, ifname) = {} => Untouched(dir, id, ifname)
        /\ LET r == ReleaseByID(dir, id, ifname, {}) IN
           (r.found /\ LegacyFormat(r.d, id) = {}) => Untouched(r.d, id, ifname)

\* ReleaseByID has just found nothing for c1 on eth0 in a directory that
\* holds a reservation of c2 and the marker of an address released before
C16_Witness ==
    /\ hist = Call(<<"c1">>, <<"eth0">>, FALSE)
    /\ ret = Ret(TRUE, "nil")
    /\ Matching(dir, <<"c1">>, <<"eth0">>) = {}
    /\ NewFormat(dir, <<"c2">>, <<"eth0">>) # {}
    /\ Exists(dir, LastIPFile(RangeID))
    /\ ~Exists(dir, dir[LastIPFile(RangeID)].data)

\* the files a call deletes: those of the id and interface whose read and
\* remove succeed, or, when there is none, those of the id alone
Deleted(d, id, ifname, bad) ==
    IF NewFormat(d, id, ifname) \ bad # {}
    THEN NewFormat(d, id, ifname) \ bad
    ELSE LegacyFormat(d, id) \ bad

\* C20: ReleaseByID(id, ifname) deletes exactly the files whose trimmed
\* content is id, line break, ifname, or, only when it deleted none of these,
\* the files whose trimmed content is id alone; every other file (another
\* owner's, the same owner's on another interface, a marker, a mapping file)
\* stays as it is; a file whose read or remove fails is skipped and the call
\* returns no error.
C20_DeletesExactlyMatches ==
    \A id \in ContainerIDs, ifname \in ReleaseIfnames :
        \A bad \in SUBSET Matching(dir, id, ifname) :
            LET r == ReleaseByID(dir, id, ifname, bad) IN
            /\ r.err = "nil"
            /\ DOMAIN r.d = DOMAIN dir \ Deleted(dir, id, ifname, bad)
            /\ \A n \in DOMAIN r.d : r.d[n] = dir[n]
            /\ r.found <=> Deleted(dir, id, ifname, bad) # {}

\* ReleaseByID has just removed the file of c1 on eth0, whose address the
\* marker names, and has left c1's file of a previous version, the marker and
\* a mapping file
C20_Witness ==
    /\ hist = Call(<<"c1">>, <<"eth0">>, TRUE)
    /\ NewFormat(dir, <<"c1">>, <<"eth0">>) = {}
    /\ LegacyFormat(dir, <<"c1">>) # {}
    /\ Exists(dir, LastIPFile(RangeID))
    /\ ~Exists(dir, dir[LastIPFile(RangeID)].data)
    /\ \E n \in DOMAIN dir : resolvePodFileName(n).ip # << >>


----------------------------------------------------------------------------
(* Claim on the error paths of Reserve, under SpecDisk *)

\* the Reserve call of p, which has created its address file, returns
ReturnsAfterCreate(p) ==
    /\ rpc[p] \in {"opened", "written", "closed"}
    /\ rpc'[p] = "idle"

\* C19: whenever Reserve returns an error after it has created the address
\* file (the owner write, the close or the write of the last-reserved marker
\* has failed), no file of that address is left.
C19_FailedReserveRemovesFile ==
    [][\A p \in Procs :
          (ReturnsAfterCreate(p) /\ ret'.err # "nil")
              => ~Exists(dir', AddrFile(rarg[p].ip))]_vars


----------------------------------------------------------------------------
(* The resolver on its own: SpecResolve.  An argument string is drawn in    *)
(* the initial state and resolved in one step.                              *)

MaxPairs == 3

\* values of 200, 30 and 31 bytes
X200 == "xxxxxxxxxxxxxxxxxxxxxxxxxxxxxxxxxxxxxxxxxxxxxxxxxxxxxxxxxxxxxxxxxxxxxxxxxxxxxxxxxxxxxxxxxxxxxxxxxxxxxxxxxxxxxxxxxxxxxxxxxxxxxxxxxxxxxxxxxxxxxxxxxxxxxxxxxxxxxxxxxxxxxxxxxxxxxxxxxxxxxxxxxxxxxxxxxxxxxxxx"

X30 == "yyyyyyyyyyyyyyyyyyyyyyyyyyyyyy"

X31 == "zzzzzzzzzzzzzzzzzzzzzzzzzzzzzzz"

\* the segments of the argument strings: pairs of the two keys with short,
\* long and empty values, another key, and segments with no or two "="
ArgSegments ==
    {<<"K8S_POD_NAMESPACE", "=", "ns1">>,
     <<"K8S_POD_NAMESPACE", "=", X200>>,
     <<"K8S_POD_NAME", "=", "pod1">>,
     <<"K8S_POD_NAME", "=", X30>>,
     <<"K8S_POD_NAME", "=", X31>>,
     <<"K8S_POD_NAME", "=">>,
     <<"IgnoreUnknown", "=", "1">>,
     <<"K8S_POD_NAME">>,
     <<"K8S_POD_NAME", "=", "pod1", "=", "pod2">>,
     << >>}

RECURSIVE JoinArgs(_)
JoinArgs(segs) ==
    IF segs = << >> THEN << >>
    ELSE IF Len(segs) = 1 THEN Head(segs)
    ELSE Head(segs) \o <<";">> \o JoinArgs(Tail(segs))

EnvArgs ==
    {JoinArgs(segs) : segs \in UNION {[1..n -> ArgSegments] : n \in 0..MaxPairs}}

NotResolved == [ns |-> << >>, name |-> << >>, err |-> "none"]

InitResolve ==
    /\ dir = << >>
    /\ rpc = [p \in Procs |-> "idle"]
    /\ rarg = [p \in Procs |-> NoArg]
    /\ ret = NotResolved
    /\ macDir = << >>
    /\ look = NoLook
    /\ plugin = PluginHostLocal
    /\ table = {}
    /\ nextID = 1
    /\ now = 0
    /\ lock = "none"
    /\ hist \in {<<e>> : e \in EnvArgs}

Resolve ==
    /\ ret = NotResolved
    /\ ret' = ResolvePodNSAndNameFromEnvArgs(hist[1])
    /\ UNCHANGED <<dir, rpc, rarg, macDir, look, plugin, table, nextID, now, lock, hist>>

NextResolve == Resolve

SpecResolve == InitResolve /\ [][NextResolve]_vars

\* the reference: the segments between the ";", the key before and the value
\* after the one "=" of a segment, the value of the last segment with a key
RefSegments(s) == Split(s, ";")

WellFormed(seg) == Count(seg, "=") = 1

EqAt(seg) == CHOOSE i \in 1..Len(seg) : seg[i] = "="

RefKey(seg) == SubSeq(seg, 1, EqAt(seg) - 1)

RefValue(seg) == SubSeq(seg, EqAt(seg) + 1, Len(seg))

LastValue(segs, key) ==
    LET at == {i \in 1..Len(segs) : RefKey(segs[i]) = key} IN
    IF at = {} THEN << >>
    ELSE RefValue(segs[CHOOSE i \in at : \A j \in at : j <= i])

Reference(s) ==
    LET segs == RefSegments(s)
        ns == LastValue(segs, <<"K8S_POD_NAMESPACE">>)
        name == LastValue(segs, <<"K8S_POD_NAME">>)
    IN  IF s = << >> THEN [ns |-> << >>, name |-> << >>, err |-> "nil"]
        ELSE IF \E i \in 1..Len(segs) : ~WellFormed(segs[i])
             THEN [err |-> "pair"]
        ELSE IF StrLen(ns) + StrLen(name) > 230
             THEN [err |-> "limit"]
        ELSE [ns |-> ns, name |-> name, err |-> "nil"]

\* C18: on every argument string ResolvePodNSAndNameFromEnvArgs gives what
\* the reference gives: no error and empty values for the empty string, the
\* malformed-pair error when a segment has not exactly one "=", else the
\* values of the last pairs of the two keys, with the length-limit error
\* exactly when their lengths add up to more than 230.
C18_AgreesWithReference ==
    ret # NotResolved =>
        LET ref == Reference(hist[1]) IN
        /\ ret.err = ref.err
        /\ ret.err = "nil" => ret.ns = ref.ns /\ ret.name = ref.name

\* three pairs resolved: the namespace given twice, the last value kept, and
\* a combined length of exactly the limit accepted
C18_Witness ==
    /\ hist = << <<"K8S_POD_NAMESPACE", "=", "ns1", ";",
                   "K8S_POD_NAMESPACE", "=", X200, ";",
                   "K8S_POD_NAME", "=", X30>> >>
    /\ ret = [ns |-> <<X200>>, name |-> <<X30>>, err |-> "nil"]


\* C28: whenever ResolvePodNSAndNameFromEnvArgs returns an error, for a
\* malformed pair or for the length limit, the namespace and the name it
\* returns are both empty, so that the callers, which log the error and test
\* the name only, take the workload for an untracked one and go to the
\* database for no partially parsed identity.
C28_ErrorGivesNoIdentity ==
    (ret # NotResolved /\ ret.err # "nil") => (ret.ns = << >> /\ ret.name = << >>)


----------------------------------------------------------------------------
(* Opening the database (OpenDB, CloseDB): SpecOpen.  dir is the data       *)
(* directory, with one directory per network and the database files in it;  *)
(* plugin is the process-global handle db.                                  *)

BridgeDBName == <<"bridge.db">>

HostLocalDBName == <<"host-local.db">>

Networks == {<<"net1">>, <<"net2">>}

\* the plugin kinds OpenDB is called with
Kinds == {PluginBridge, PluginHostLocal, "dhcp", ""}

\* the global db: nil, or the handle gorm.Open returned on a database file
NilDB == [path |-> << >>, open |-> FALSE]

Handle(path, open) == [path |-> path, open |-> open]

NetworkDir(network) == network

DBPath(network, dbName) == network \o <<"/">> \o dbName

\* os.MkdirAll
MkdirAll(d, path) == IF Exists(d, path) THEN d ELSE PutFile(d, path, NewFile(<< >>))

\* sqlite opening the file: it is created when it is not there
OpenFile(d, path) == IF Exists(d, path) THEN d ELSE PutFile(d, path, NewFile(<< >>))

NotSupport(pluginName) == <<"not support plugin ", pluginName>>

\* mutant of OpenDB: the plugin kind is looked at after the directory is made
OpenDBKindLast(d, h, network, pluginName, fail) ==
    LET dbName == IF pluginName = PluginBridge THEN BridgeDBName ELSE HostLocalDBName
        made == MkdirAll(d, NetworkDir(network))
        dbPath == DBPath(network, dbName)
    IN  IF fail = "mkdir" THEN [d |-> d, db |-> h, err |-> <<"io">>]
        ELSE IF pluginName \notin {PluginBridge, PluginHostLocal}
             THEN [d |-> made, db |-> h, err |-> NotSupport(pluginName)]
        ELSE IF fail = "open"
             THEN [d |-> made, db |-> Handle(dbPath, FALSE), err |-> <<"io">>]
        ELSE [d |-> OpenFile(made, dbPath), db |-> Handle(dbPath, TRUE), err |-> <<"nil">>]

\* OpenDB; fail: the call that fails ("mkdir", "open"), or "none".  The
\* result of gorm.Open is assigned to db also when it is an error.
OpenDB(d, h, network, pluginName, fail) ==
    LET dbName == IF pluginName = PluginBridge THEN BridgeDBName ELSE HostLocalDBName
        made == MkdirAll(d, NetworkDir(network))
        dbPath == DBPath(network, dbName)
    IN  IF pluginName \notin {PluginBridge, PluginHostLocal}
        THEN [d |-> d, db |-> h, err |-> NotSupport(pluginName)]
        ELSE IF fail = "mkdir" THEN [d |-> d, db |-> h, err |-> <<"io">>]
        ELSE IF fail = "open"
             THEN [d |-> made, db |-> Handle(dbPath, FALSE), err |-> <<"io">>]
        ELSE [d |-> OpenFile(made, dbPath), db |-> Handle(dbPath, TRUE), err |-> <<"nil">>]

\* CloseDB: nothing for a nil db, else the connection is closed
CloseDB(h) == IF h = NilDB THEN h ELSE Handle(h.path, FALSE)

InitOpen ==
    /\ dir = << >>
    /\ rpc = [p \in Procs |-> "idle"]
    /\ rarg = [p \in Procs |-> NoArg]
    /\ ret = Ret(FALSE, <<"none">>)
    /\ macDir = << >>
    /\ look = NoLook
    /\ plugin = NilDB
    /\ table = {}
    /\ nextID = 1
    /\ now = 0
    /\ lock = "none"
    /\ hist = << >>

Open(network, pluginName, fail) ==
    LET r == OpenDB(dir, plugin, network, pluginName, fail) IN
    /\ dir' = r.d
    /\ plugin' = r.db
    /\ ret' = Ret(r.err = <<"nil">>, r.err)
    /\ UNCHANGED <<rpc, rarg, macDir, look, table, nextID, now, lock, hist>>

Close ==
    /\ plugin' = CloseDB(plugin)
    /\ ret' = Ret(TRUE, <<"nil">>)
    /\ UNCHANGED <<dir, rpc, rarg, macDir, look, table, nextID, now, lock, hist>>

NextOpen ==
    \/ \E network \in Networks, pluginName \in Kinds,
          fail \in {"none", "mkdir", "open"} :
           Open(network, pluginName, fail)
    \/ Close

SpecOpen == InitOpen /\ [][NextOpen]_vars

\* C17: OpenDB with a plugin kind other than "bridge" and "host-local" fails
\* with the error "not support plugin <kind>", makes no directory and no
\* database file, and leaves the global handle as it is.
C17_UnsupportedKindChangesNothing ==
    \A network \in Networks, pluginName \in Kinds \ {PluginBridge, PluginHostLocal},
       fail \in {"none", "mkdir", "open"} :
        OpenDB(dir, plugin, network, pluginName, fail)
            = [d |-> dir, db |-> plugin, err |-> NotSupport(pluginName)]

\* the database of net1 is open and OpenDB was then called with "dhcp": the
\* error names the kind, the directory of net2 was not made, the handle is
\* the one of net1
C17_Witness ==
    /\ ret = Ret(FALSE, NotSupport("dhcp"))
    /\ plugin = Handle(DBPath(<<"net1">>, BridgeDBName), TRUE)
    /\ DOMAIN dir = {NetworkDir(<<"net1">>), DBPath(<<"net1">>, BridgeDBName)}


----------------------------------------------------------------------------
(* Claim on GetByID, under SpecRelease *)

\* the addresses of the files ReleaseByID(id, ifname) would delete
WouldRelease(d, id, ifname) ==
    {ParseIP(n) : n \in {m \in DOMAIN d \ DOMAIN ReleaseByID(d, id, ifname, {}).d :
                            ParseIP(m) # NilIP}}

\* C21: in every state of the store the addresses GetByID returns for an
\* owner id and interface are the addresses of the files that ReleaseByID
\* would delete; a file with the id alone is returned only when no file with
\* the id and the interface matches.
C21_ListsWhatReleaseDeletes ==
    \A id \in ContainerIDs, ifname \in ReleaseIfnames :
        /\ GetByID(dir, id, ifname) = WouldRelease(dir, id, ifname)
        /\ NewFormat(dir, id, ifname) # {} =>
               \A n \in LegacyFormat(dir, id) : ParseIP(n) \notin GetByID(dir, id, ifname)


----------------------------------------------------------------------------
(* The MAC store with the modification times of its files and the removal   *)
(* of expired records: SpecExpire.  hist.mtime is the modification time of  *)
(* each file, in days; hist.bound is history: the identities whose last     *)
(* successful reservePodInfo call was a bind.                               *)

\* the retention RemoveExpiredRecords is called with
RetentionDays == {0, 1}

\* the patterns RemoveExpiredRecords is called with: texts without
\* metacharacters, which match a name that contains them
Patterns == {<<"mac", "_">>, <<"_", "ns1", "_", "pod1">>}

\* regexp.MatchString for such a pattern
MatchString(pattern, name) ==
    \E i \in 1..(Len(name) - Len(pattern) + 1) :
        SubSeq(name, i, i + Len(pattern) - 1) = pattern

\* the modification times after reservePodInfo: ioutil.WriteFile sets the
\* time of the file it writes, os.Rename keeps the time of the file it moves
reservePodInfoModTime(d, mt, clock, mac, podNs, podName, fail) ==
    LET found == macFindPodFileName(d, << >>, podNs, podName)
        target == macPodFileName(mac, podNs, podName)
    IN  IF podName = << >> \/ fail THEN mt
        ELSE IF mac = << >>
             THEN IF found = << >> THEN mt ELSE [mt EXCEPT ![GetEscapedPath(found)] = clock]
        ELSE IF found # << >> /\ target # found
             THEN [n \in (DOMAIN mt \ {GetEscapedPath(found)}) \cup {GetEscapedPath(target)} |->
                      IF n = GetEscapedPath(target) THEN mt[GetEscapedPath(found)] ELSE mt[n]]
             ELSE [n \in DOMAIN mt \cup {GetEscapedPath(target)} |->
                      IF n = GetEscapedPath(target) THEN clock ELSE mt[n]]

\* the files Store.RemoveExpiredRecords removes; bad: the files whose read or
\* remove fails
Expired(d, mt, pattern, clock, expirationDays, bad) ==
    {n \in DOMAIN d \ bad :
        /\ MatchString(pattern, n)
        /\ ~(mt[n] > clock - expirationDays)
        /\ TrimSpace(d[n].data) = deletionTag}

\* Store.RemoveExpiredRecords
RemoveExpiredRecords(d, mt, pattern, clock, expirationDays, bad) ==
    [n \in DOMAIN d \ Expired(d, mt, pattern, clock, expirationDays, bad) |-> d[n]]

InitExpire ==
    /\ dir = << >>
    /\ rpc = [p \in Procs |-> "idle"]
    /\ rarg = [p \in Procs |-> NoArg]
    /\ ret = Ret(FALSE, "none")
    /\ macDir = << >>
    /\ look = NoLook
    /\ plugin = PluginBridge
    /\ table = {}
    /\ nextID = 1
    /\ now = 0
    /\ lock = "none"
    /\ hist = [mtime |-> << >>, bound |-> {}]

\* Store.SaveContainerMac: a bind, or an unbind when mac is empty
ExpSaveContainerMac(mac, pod, fail) ==
    LET r == reservePodInfo(macDir, mac, pod.ns, pod.name, fail) IN
    /\ macDir' = r.d
    /\ ret' = Ret(r.ok, r.err)
    /\ hist' = [mtime |-> reservePodInfoModTime(macDir, hist.mtime, now, mac,
                                                pod.ns, pod.name, fail),
                bound |-> IF ~r.ok THEN hist.bound
                          ELSE IF mac = << >> THEN hist.bound \ {pod}
                          ELSE hist.bound \cup {pod}]
    /\ UNCHANGED <<dir, rpc, rarg, look, plugin, table, nextID, now, lock>>

ExpRemoveExpiredRecords(pattern, expirationDays, bad) ==
    LET d == RemoveExpiredRecords(macDir, hist.mtime, pattern, now, expirationDays, bad) IN
    /\ macDir' = d
    /\ ret' = Ret(TRUE, "nil")
    /\ hist' = [hist EXCEPT !.mtime = [n \in DOMAIN d |-> hist.mtime[n]]]
    /\ UNCHANGED <<dir, rpc, rarg, look, plugin, table, nextID, now, lock>>

ExpTick ==
    /\ now < MaxDay
    /\ now' = now + 1
    /\ UNCHANGED <<dir, rpc, rarg, ret, macDir, look, plugin, table, nextID, lock, hist>>

NextExpire ==
    \/ \E mac \in MACs \cup {<< >>}, pod \in StickyPods, fail \in BOOLEAN :
           ExpSaveContainerMac(mac, pod, fail)
    \/ \E pattern \in Patterns, expirationDays \in RetentionDays :
           \E bad \in SUBSET {n \in DOMAIN macDir : TrimSpace(macDir[n].data) = deletionTag} :
               ExpRemoveExpiredRecords(pattern, expirationDays, bad)
    \/ ExpTick

SpecExpire == InitExpire /\ [][NextExpire]_vars

\* C27: after a bind that succeeds the mapping file of the identity does not
\* hold the tombstone marker; RemoveExpiredRecords deletes no mapping file of
\* an identity whose last successful call was a bind, and deletes only files
\* whose name matches the pattern, whose content is the tombstone marker and
\* whose modification time is not after now minus expirationDays.
C27_BoundNeverExpired ==
    [][/\ \A mac \in MACs, pod \in StickyPods :
             ExpSaveContainerMac(mac, pod, FALSE)
                 => \A f \in MacFilesOf(macDir', pod) : macDir'[f].data # deletionTag
       /\ \A pattern \in Patterns, expirationDays \in RetentionDays :
             ExpRemoveExpiredRecords(pattern, expirationDays, {})
                 => /\ \A pod \in hist.bound : MacFilesOf(macDir, pod) \subseteq DOMAIN macDir'
                    /\ \A n \in DOMAIN macDir \ DOMAIN macDir' :
                          /\ MatchString(pattern, n)
                          /\ macDir[n].data = deletionTag
                          /\ hist.mtime[n] <= now - expirationDays]_vars


----------------------------------------------------------------------------
(* GetIP on a database that earlier runs have written: SpecForced.  The row *)
(* of the tracked identity is what an allocator of either family, or an     *)
(* administrator, has left in the table; hist is the last GetIP call: its   *)
(* identity, the address requested, the table it found, the failing         *)
(* statement of its lookup and the address its allocation was called with.  *)

\* the text of the IPv4 column of a row: empty when only the allocator of the
\* IPv6 range has written the row, an address, or a text that is no address
StoredIPv4 == {<< >>, <<"bad">>} \cup {IPString(ip) : ip \in IPs}

StoredIPv6 == {<< >>, IPString([v |-> 6, host |-> 1])}

StoredRows ==
    {[ZeroIP EXCEPT !.ID = 1, !.Namespace = <<"ns1">>, !.Name = <<"pod1">>,
                    !.Deleted = del, !.UpdatedAt = 0, !.IPv4 = a4, !.IPv6 = a6]
     : del \in BOOLEAN, a4 \in StoredIPv4, a6 \in StoredIPv6}

NoGetIP == [called |-> FALSE]

InitForced ==
    /\ dir = << >>
    /\ rpc = [p \in Procs |-> "idle"]
    /\ rarg = [p \in Procs |-> NoArg]
    /\ ret = IPRet(NilIP, "none")
    /\ macDir = << >>
    /\ look = NoLook
    /\ plugin = PluginHostLocal
    /\ \/ table = {} /\ nextID = 1
       \/ \E row \in StoredRows : table = {row} /\ nextID = 2
    /\ now = 0
    /\ lock = "none"
    /\ hist = NoGetIP

\* GetIP, lines 21-51, one locked section: the sticky lookup, the allocation
\* and, when it succeeds for a tracked workload, the upsert; fault and
\* saveFault: the failing statements of getIP and of saveIP
ForcedGetIP(p, w, ifname, requestedIP, fault, fail, saveFault) ==
    LET pod == PodOfArgs(w.env) IN
    /\ nextID <= MaxID
    /\ \E o \in GetIP(table, dir, p, w, ifname, requestedIP, fault, fail) :
         /\ fault # "none" => o.dbfail
         /\ fail # "none" => o.err = "io"
         /\ dir' = o.d
         /\ ret' = IPRet(o.ip, o.err)
         /\ hist' = [called |-> TRUE, pod |-> pod, requested |-> requestedIP,
                     before |-> table, fault |-> fault, known |-> o.known]
         /\ IF o.save
            THEN \E s \in saveIP(table, nextID, now, pod.ns, pod.name, o.ip, saveFault) :
                     /\ saveFault # "none" => s.dbfail
                     /\ table' = s.t
                     /\ nextID' = s.nid
            ELSE saveFault = "none" /\ UNCHANGED <<table, nextID>>
    /\ UNCHANGED <<rpc, rarg, macDir, look, plugin, now, lock>>

\* the release of a workload: markDeletedIP and the removal of the
\* reservation files of the container
ForcedRelease(w, ifname) ==
    /\ dir' = ReleaseByID(dir, w.id, ifname, {}).d
    /\ \E m \in markDeletedIP(table, nextID, now, w.env, "none") :
           table' = m.t /\ nextID' = m.nid
    /\ UNCHANGED <<rpc, rarg, ret, macDir, look, plugin, now, lock, hist>>

NextForced ==
    \/ \E p \in Procs, w \in IPWorkloads, ifname \in Ifnames, ip \in IPs \cup {NilIP},
          fault \in {"none", "open", "get"}, fail \in IOFails,
          saveFault \in {"none", "open", "get", "save"} :
           ForcedGetIP(p, w, ifname, ip, fault, fail, saveFault)
    \/ \E w \in IPWorkloads, ifname \in Ifnames : ForcedRelease(w, ifname)

SpecForced == InitForced /\ [][NextForced]_vars


----------------------------------------------------------------------------
(* Claims on the forced candidate, under SpecForced *)

\* the address of the family of the range that the row of the identity holds
StoredAddress(t, pod) ==
    IF \E r \in RowsOf(t, pod) : ParseIP(r.IPv4) # NilIP
    THEN ParseIP((CHOOSE r \in RowsOf(t, pod) : ParseIP(r.IPv4) # NilIP).IPv4)
    ELSE NilIP

\* C24: the allocation of a GetIP call for a tracked identity is called with
\* the address of the family of the range that the row of the identity holds,
\* when the row is read and the address parses, whatever address the caller
\* requested; with the requested address (which may be none) when there is no
\* row, when the row holds no address of that family that parses, or when the
\* database fails; and never with the address of the other family of the row.
C24_ForcedCandidate ==
    (hist.called /\ hist.pod.name # << >>) =>
        /\ (hist.fault = "none" /\ StoredAddress(hist.before, hist.pod) # NilIP)
               => hist.known = StoredAddress(hist.before, hist.pod)
        /\ (hist.fault # "none" \/ StoredAddress(hist.before, hist.pod) = NilIP)
               => hist.known = hist.requested
        /\ \A r \in RowsOf(hist.before, hist.pod) :
               ParseIP(r.IPv6) # NilIP => hist.known # ParseIP(r.IPv6)

\* a call that requested another address than the one stored, on a row that
\* holds an address of each family
C24_Witness ==
    /\ hist.called
    /\ hist.pod.name # << >>
    /\ hist.fault = "none"
    /\ hist.requested # NilIP
    /\ hist.known # hist.requested
    /\ \E r \in RowsOf(hist.before, hist.pod) : ParseIP(r.IPv6) # NilIP


----------------------------------------------------------------------------
(* The lock and the database handle inside the orchestrator operations:     *)
(* SpecLock.  A process is a plugin invocation; it runs one operation at a  *)
(* time, statement by statement.  look is, per process, the process-global  *)
(* database handle; rarg is the operation in flight with its stack of       *)
(* frames, a frame being the deferred calls of a function in the order of   *)
(* their defer statements; dir holds the reservation files and, below the   *)
(* network directory, the database file.  A run is within one day.          *)

LockNetwork == <<"net1">>

\* the operations that take the lock
LockOps == {"GetIP", "ReleaseExpiredIPs", "getReservedMAC", "saveReservedMAC", "releaseMAC"}

Frame(call) == [op |-> call.op, env |-> call.env, id |-> call.id, ifname |-> call.ifname,
                requested |-> call.requested, days |-> call.days, mac |-> call.mac,
                section |-> call.op, known |-> NilIP, ip |-> NilIP, frames |-> << << >> >>]

\* the calls of a plugin: the operation and its arguments
LockCalls(kind) ==
    IF kind = PluginHostLocal
    THEN {[op |-> "GetIP", env |-> w.env, id |-> w.id, ifname |-> ifname, requested |-> ip,
           days |-> 0, mac |-> << >>]
          : w \in IPWorkloads, ifname \in Ifnames, ip \in IPs \cup {NilIP}}
         \cup {[op |-> "ReleaseExpiredIPs", env |-> << >>, id |-> << >>, ifname |-> << >>,
                requested |-> NilIP, days |-> days, mac |-> << >>]
               : days \in ExpirationDays}
    ELSE {[op |-> "getReservedMAC", env |-> w.env, id |-> w.id, ifname |-> << >>,
           requested |-> NilIP, days |-> days, mac |-> mac]
          : w \in IPWorkloads, days \in ExpirationDays, mac \in PresetMACs \cup {<< >>}}
         \cup {[op |-> "releaseMAC", env |-> w.env, id |-> w.id, ifname |-> << >>,
                requested |-> NilIP, days |-> days, mac |-> << >>]
               : w \in IPWorkloads, days \in ExpirationDays}
         \cup {[op |-> "saveReservedMAC", env |-> w.env, id |-> w.id, ifname |-> << >>,
                requested |-> NilIP, days |-> 0, mac |-> mac]
               : w \in IPWorkloads, mac \in PresetMACs}

\* mutant of NextDeferred: the deferred calls run in the order of their defer
\* statements
NextDeferredFirst(frame) == 1

\* the deferred call that runs next when the function returns: the last one
\* deferred
NextDeferred(frame) == Len(frame)

\* Lock returns when no process holds the lock of the directory, and waits
\* until then
Unlocked(l) == l = "none"

Top(frames) == frames[Len(frames)]

Push(frames, call) == [frames EXCEPT ![Len(frames)] = Append(@, call)]

Drop(frame, i) == SubSeq(frame, 1, i - 1) \o SubSeq(frame, i + 1, Len(frame))

InitLock ==
    /\ dir = << >>
    /\ rpc = [p \in Procs |-> "idle"]
    /\ rarg = [p \in Procs |-> NoArg]
    /\ ret = IPRet(NilIP, "none")
    /\ macDir = << >>
    /\ look = [p \in Procs |-> NilDB]
    /\ plugin \in {PluginHostLocal, PluginBridge}
    /\ table = {}
    /\ nextID = 1
    /\ now = 0
    /\ lock = "none"
    /\ hist = << >>

\* the operation is called: ReleaseExpiredIPs without a retention and
\* getReservedMAC with a configured MAC return at once; releaseMAC makes its
\* lock first (lockFail: it cannot) and returns without it
LockCall(p, call, lockFail) ==
    /\ rpc[p] = "idle"
    /\ call \in LockCalls(plugin)
    /\ nextID <= MaxID
    /\ lockFail => call.op = "releaseMAC"
    /\ LET returns == lockFail
                       \/ (call.op = "ReleaseExpiredIPs" /\ call.days = 0)
                       \/ (call.op = "getReservedMAC" /\ call.mac # << >>)
       IN  /\ rpc' = [rpc EXCEPT ![p] = IF returns THEN "idle" ELSE "lock"]
           /\ rarg' = [rarg EXCEPT ![p] = IF returns THEN NoArg ELSE Frame(call)]
    /\ UNCHANGED <<dir, ret, macDir, look, plugin, table, nextID, now, lock, hist>>

\* Lock, defer Unlock, and the test of the pod name: the process waits until
\* no process holds the lock
LockAcquire(p) ==
    LET a == rarg[p]
        tracked == PodOfArgs(a.env).name # << >>
        locked == [a EXCEPT !.frames = Push(@, "Unlock")]
    IN  /\ rpc[p] = "lock"
        /\ Unlocked(lock)
        /\ lock' = p
        /\ CASE a.op = "GetIP" /\ tracked ->
                    \* getIP is called: a frame of its own
                    /\ rpc' = [rpc EXCEPT ![p] = "open"]
                    /\ rarg' = [rarg EXCEPT ![p] =
                                   [locked EXCEPT !.section = "getIP",
                                                  !.frames = Append(@, << >>)]]
             [] a.op = "GetIP" /\ ~tracked ->
                    /\ rpc' = [rpc EXCEPT ![p] = "alloc"]
                    /\ rarg' = [rarg EXCEPT ![p] = locked]
             [] a.op \in {"getReservedMAC", "saveReservedMAC"} /\ ~tracked ->
                    /\ rpc' = [rpc EXCEPT ![p] = "return"]
                    /\ rarg' = [rarg EXCEPT ![p] = locked]
             [] OTHER ->
                    /\ rpc' = [rpc EXCEPT ![p] = "open"]
                    /\ rarg' = [rarg EXCEPT ![p] = locked]
        /\ UNCHANGED <<dir, ret, macDir, look, plugin, table, nextID, now, hist>>

\* OpenDB and, when it succeeds, defer CloseDB; when it fails the function
\* returns
LockOpenDB(p, fail) ==
    LET a == rarg[p]
        r == OpenDB(dir, look[p], LockNetwork, plugin, fail)
    IN  /\ rpc[p] = "open"
        /\ dir' = r.d
        /\ look' = [look EXCEPT ![p] = r.db]
        /\ IF r.err = <<"nil">>
           THEN /\ rpc' = [rpc EXCEPT ![p] = "work"]
                /\ rarg' = [rarg EXCEPT ![p].frames = Push(@, "CloseDB")]
           ELSE /\ rpc' = [rpc EXCEPT ![p] = "return"]
                /\ UNCHANGED rarg
        /\ UNCHANGED <<ret, macDir, plugin, table, nextID, now, lock, hist>>

\* the statements of the function on the open database, up to its return;
\* fault: the statement that fails
LockWork(p, fault) ==
    LET a == rarg[p]
        pod == PodOfArgs(a.env)
    IN  /\ rpc[p] = "work"
        /\ rpc' = [rpc EXCEPT ![p] = "return"]
        /\ CASE a.section = "getIP" ->
                    /\ fault \in {"none", "get"}
                    /\ \E k \in getIP(table, pod.ns, pod.name, fault) :
                           /\ fault # "none" => k.dbfail
                           /\ rarg' = [rarg EXCEPT ![p].known = k.ip]
                    /\ UNCHANGED <<table, nextID>>
             [] a.section = "saveIP" ->
                    /\ fault \in {"none", "get", "save"}
                    /\ \E w \in saveIP(table, nextID, now, pod.ns, pod.name, a.ip, fault) :
                           /\ fault # "none" => w.dbfail
                           /\ table' = w.t
                           /\ nextID' = w.nid
                    /\ UNCHANGED rarg
             [] a.section = "ReleaseExpiredIPs" ->
                    /\ fault \in {"none", "purge"}
                    /\ table' = PurgeExpiredIPs(table, now, a.days, fault = "purge")
                    /\ UNCHANGED <<rarg, nextID>>
             [] a.section = "getReservedMAC" ->
                    /\ fault \in {"none", "purge", "get"}
                    /\ \E g \in getReservedMAC(table, now, << >>, a.env, a.days, fault) :
                           /\ fault # "none" => g.dbfail
                           /\ table' = g.t
                    /\ UNCHANGED <<rarg, nextID>>
             [] a.section = "saveReservedMAC" ->
                    /\ fault \in {"none", "get", "save"}
                    /\ \E w \in saveReservedMAC(table, nextID, now, a.env, a.mac, fault) :
                           /\ fault # "none" => w.dbfail
                           /\ table' = w.t
                           /\ nextID' = w.nid
                    /\ UNCHANGED rarg
             [] a.section = "releaseMAC" ->
                    /\ fault \in {"none", "purge", "get", "save"}
                    /\ \E m \in releaseMAC(table, nextID, now, a.env, a.days, fault) :
                           /\ fault # "none" => m.dbfail
                           /\ table' = m.t
                           /\ nextID' = m.nid
                    /\ UNCHANGED rarg
        /\ UNCHANGED <<dir, ret, macDir, look, plugin, now, lock, hist>>

\* GetIP, lines 33-47: the allocation, between getIP and saveIP
LockAllocate(p, fail) ==
    LET a == rarg[p]
        tracked == PodOfArgs(a.env).name # << >>
        r == GetIPAllocate(dir, p, a.id, a.ifname, KnownIP(a.known, a.requested), fail)
    IN  /\ rpc[p] = "alloc"
        /\ fail # "none" => r.err = "io"
        /\ dir' = r.d
        /\ ret' = IPRet(r.ip, r.err)
        /\ IF tracked /\ r.err = "nil"
           THEN \* saveIP is called: a frame of its own
                /\ rpc' = [rpc EXCEPT ![p] = "open"]
                /\ rarg' = [rarg EXCEPT ![p] =
                               [a EXCEPT !.section = "saveIP", !.ip = r.ip,
                                         !.frames = Append(@, << >>)]]
           ELSE /\ rpc' = [rpc EXCEPT ![p] = "return"]
                /\ UNCHANGED rarg
        /\ UNCHANGED <<macDir, look, plugin, table, nextID, now, lock, hist>>

\* the function returns: its deferred calls run one by one, then the caller
\* goes on, GetIP after getIP with the allocation, after saveIP with its own
\* return
LockReturn(p) ==
    LET a == rarg[p]
        frame == Top(a.frames)
        i == NextDeferred(frame)
    IN  /\ rpc[p] = "return"
        /\ IF frame # << >>
           THEN /\ rarg' = [rarg EXCEPT ![p].frames =
                               [@ EXCEPT ![Len(a.frames)] = Drop(frame, i)]]
                /\ look' = IF frame[i] = "CloseDB" THEN [look EXCEPT ![p] = CloseDB(@)]
                           ELSE look
                /\ lock' = IF frame[i] = "Unlock" THEN "none" ELSE lock
                /\ UNCHANGED rpc
           ELSE /\ UNCHANGED <<look, lock>>
                /\ IF Len(a.frames) = 1
                   THEN /\ rpc' = [rpc EXCEPT ![p] = "idle"]
                        /\ rarg' = [rarg EXCEPT ![p] = NoArg]
                   ELSE /\ rpc' = [rpc EXCEPT ![p] =
                                      IF a.section = "getIP" THEN "alloc" ELSE "return"]
                        /\ rarg' = [rarg EXCEPT ![p].frames =
                                       SubSeq(@, 1, Len(@) - 1)]
        /\ UNCHANGED <<dir, ret, macDir, plugin, table, nextID, now, hist>>

NextLock ==
    \/ \E p \in Procs, call \in LockCalls(plugin), lockFail \in BOOLEAN :
           LockCall(p, call, lockFail)
    \/ \E p \in Procs : LockAcquire(p)
    \/ \E p \in Procs, fail \in {"none", "mkdir", "open"} : LockOpenDB(p, fail)
    \/ \E p \in Procs, fault \in {"none", "purge", "get", "save"} : LockWork(p, fault)
    \/ \E p \in Procs, fail \in IOFails : LockAllocate(p, fail)
    \/ \E p \in Procs : LockReturn(p)

SpecLock == InitLock /\ [][NextLock]_vars


----------------------------------------------------------------------------
(* Claims on the lock and the database handle, under SpecLock *)

\* C26: in every operation that takes the lock the database handle of a
\* process is open only while the process holds the lock: once the operation
\* has returned, on whatever path, the handle is closed and the lock is
\* released, and the handle is closed before the lock is released.
C26_OpenOnlyUnderLock ==
    \A p \in Procs :
        /\ look[p].open => lock = p
        /\ rpc[p] = "idle" => (~look[p].open /\ lock # p)

\* a process is inside saveIP with the handle open, having opened and closed
\* it once in getIP, while the other process waits for the lock
C26_Witness ==
    \E p, q \in Procs :
        /\ lock = p
        /\ look[p].open
        /\ rpc[p] = "work"
        /\ rarg[p].section = "saveIP"
        /\ rpc[q] = "lock"

====
